---------------------------- MODULE Spec2Model ----------------------------
(***************************************************************************)
(* Flocking simulations of the Starling repository: fish.js (vortex        *)
(* conveyor), main.js and starling.js (boids), penguins.js (huddle).       *)
(*                                                                         *)
(* Numbers are fixed point.  Lengths, speeds and accelerations are in      *)
(* hundredths of the source's unit (Unit), time steps in milliseconds,     *)
(* the cursor speed multiplier in hundredths.  Every product is rounded    *)
(* to the nearest integer where the source rounds to the nearest double.   *)
(* The four scripts share no state; sim names the script that is loaded.   *)
(***************************************************************************)
EXTENDS Integers, Sequences, FiniteSets, TLC

VARIABLES sim, tab, frames, budget, scene, fish, specialFish, speedMultiplier,
          positions, velocities, mouse, deltaTime,
          penguins, mouseXPos, mouseYPos, penguinCount

vars == <<sim, tab, frames, budget, scene, fish, specialFish, speedMultiplier,
          positions, velocities, mouse, deltaTime,
          penguins, mouseXPos, mouseYPos, penguinCount>>

\* the state of penguins.js
huddleVars == <<penguins, mouseXPos, mouseYPos, penguinCount>>

-----------------------------------------------------------------------------
(* Bounds of the exploration *)

\* frames run per script
MaxFrames == 260
\* steps (frames with an arbitrary clock reading, mouse events) taken after
\* the run of full-length frames
MaxFree == 1
\* population of the model (numFish of fish.js)
NumFish == 2
\* population of the model (birdCount of main.js and of starling.js)
BirdCount == 2
\* largest penguinCount of the runs (penguins.js)
NumPenguins == 2
\* largest penguinCount of setup() on its own
MaxCount == 90
\* most mutation records of one observer callback (fish.js)
MaxBatch == 2
\* slack of one fixed-point rounding per vector component
Slack == 2

-----------------------------------------------------------------------------
(* Fixed-point arithmetic *)

Unit == 10 * 10

Abs(a) == IF a < 0 THEN -a ELSE a
Max(a, b) == IF a > b THEN a ELSE b
Min(a, b) == IF a < b THEN a ELSE b

\* a / b rounded to the nearest integer, b > 0
RDiv(a, b) ==
    IF a >= 0 THEN (2 * a + b) \div (2 * b)
    ELSE -((2 * (-a) + b) \div (2 * b))

RECURSIVE SqrtIter(_, _)
SqrtIter(n, x) ==
    LET y == (x + n \div x) \div 2
    IN  IF y >= x THEN x ELSE SqrtIter(n, y)

\* floor of the square root; the iteration starts from a power of two above
\* the root
ISqrt(n) ==
    IF n < 2 THEN n
    ELSE SqrtIter(n, IF n < 2^8 THEN 2^4 ELSE IF n < 2^12 THEN 2^6
                     ELSE IF n < 2^16 THEN 2^8 ELSE IF n < 2^20 THEN 2^10
                     ELSE IF n < 2^24 THEN 2^12 ELSE IF n < 2^28 THEN 2^14
                     ELSE 46341)

\* Math.sqrt, Math.hypot: the nearest integer to the square root
Sqrt(n) ==
    LET s == ISqrt(n)
    IN  IF n - s * s > s THEN s + 1 ELSE s

Vec(a, b, c) == [x |-> a, y |-> b, z |-> c]
Zero3 == Vec(0, 0, 0)
VAdd(u, v) == Vec(u.x + v.x, u.y + v.y, u.z + v.z)
VSub(u, v) == Vec(u.x - v.x, u.y - v.y, u.z - v.z)
\* v * (num / den)
VScale(v, num, den) ==
    Vec(RDiv(v.x * num, den), RDiv(v.y * num, den), RDiv(v.z * num, den))
LenSq(v) == v.x * v.x + v.y * v.y + v.z * v.z
MaxAbs(v) == Max(Abs(v.x), Max(Abs(v.y), Abs(v.z)))
\* Vector3.length(); a long vector is measured in a coarser unit, so that
\* its squares stay in range
Length(v) ==
    IF MaxAbs(v) <= 20000 THEN Sqrt(LenSq(v))
    ELSE LET k == MaxAbs(v) \div 10000
         IN  k * Sqrt(LenSq(Vec(v.x \div k, v.y \div k, v.z \div k)))
\* normalize().multiplyScalar(l): normalize() divides by (length() || 1),
\* which leaves the zero vector as it is
NormalizeTo(v, l) ==
    LET k == MaxAbs(v) \div 10000 + 1
        w == Vec(RDiv(v.x, k), RDiv(v.y, k), RDiv(v.z, k))
    IN  IF Length(w) = 0 THEN w ELSE VScale(w, l, Length(w))
DistSq(u, v) == LenSq(VSub(u, v))

\* the browser window, in pixels
Window == [innerWidth |-> 800, innerHeight |-> 600]

\* the side of the largest lattice of penguins a neighbor search is run on
CrowdSide == 5
-----------------------------------------------------------------------------
(* fish.js: parameters *)

cylinderRadius == 1200
wallThickness == 100
cylinderHeight == 4500
halfH == cylinderHeight \div 2
innerRing == cylinderRadius - wallThickness \div 10
outerRing == cylinderRadius + wallThickness \div 10
baseTangentialSpeed == 90
risePerTurn == 6000
peelHeight == RDiv(halfH * 78, 100)
reentryHeight == -RDiv(halfH * 78, 100)
descentSpeed == 120
\* gains in tenths
peelOutwardGain == 9
reenterInwardGain == 9
separationRadius == 200
\* weight in tenths
fish_separationWeight == 12
fish_minSpeed == 180
fish_maxSpeed == 420
maxAccel == 20
\* multipliers in hundredths
maxSpeedMultiplier == 500
minSpeedMultiplier == 10
cohesionRadiusSq == (10 * Unit) * (10 * Unit)
\* cap of the frame step of animate, milliseconds
DtCap == 60
\* 2 * Math.PI in hundredths
TwoPi == 628

\* (angSpeed / (2 * Math.PI)) * risePerTurn with
\* angSpeed = baseTangentialSpeed / Math.max(targetRadius, 0.1)
AscentRate(targetRadius) ==
    RDiv(baseTangentialSpeed * risePerTurn * Unit,
         Max(targetRadius, Unit \div 10) * TwoPi)


-----------------------------------------------------------------------------
(* fish.js: forces *)

\* cos and sin of f.theta = Math.atan2(pos.z, pos.x), in hundredths; the
\* source keeps theta and radius in step with pos (initFish, updateFish)
CosTheta(f) == IF f.radius = 0 THEN Unit ELSE RDiv(f.pos.x * Unit, f.radius)
SinTheta(f) == IF f.radius = 0 THEN 0 ELSE RDiv(f.pos.z * Unit, f.radius)

\* the ring and the vertical speed the mode asks for
TargetRadius(f) == IF f.mode = "ascend" THEN innerRing ELSE outerRing
TargetVy(f) ==
    IF f.mode = "ascend" THEN AscentRate(innerRing) ELSE -descentSpeed

\* radial gain in tenths
RadialGain(f) ==
    IF f.mode = "ascend" /\ f.pos.y >= peelHeight THEN peelOutwardGain
    ELSE IF f.mode = "descend" /\ f.pos.y <= reentryHeight
         THEN reenterInwardGain
         ELSE 6

vortexConveyorForce(f) ==
    LET tangent == Vec(-SinTheta(f), 0, CosTheta(f))
        desiredTangential == VScale(tangent, baseTangentialSpeed, Unit)
        tangentialDelta == VSub(desiredTangential, Vec(f.vel.x, 0, f.vel.z))
        tangentialForce == VScale(tangentialDelta, 4, 10)
        radialDir == Vec(CosTheta(f), 0, SinTheta(f))
        radialError == TargetRadius(f) - f.radius
        radialForce == VScale(radialDir, radialError * RadialGain(f), Unit * 10)
        vyError == TargetVy(f) - f.vel.y
        verticalForce == Vec(0, RDiv(vyError * 6, 10), 0)
        axialCenterForce == Vec(0, RDiv(-f.pos.y * 2, 100), 0)
    IN  VAdd(VAdd(tangentialForce, radialForce),
             VAdd(verticalForce, axialCenterForce))

\* one neighbour's push: the unit vector away from it when it is nearer than
\* separationRadius and not at distance 0, and whether it counted
Away(fs, i, j) ==
    LET d == Sqrt(DistSq(fs[i].pos, fs[j].pos))
    IN  IF d > 0 /\ d < separationRadius
        THEN [v |-> VScale(VSub(fs[i].pos, fs[j].pos), Unit, d), n |-> 1]
        ELSE [v |-> Zero3, n |-> 0]

RECURSIVE SteerSum(_, _, _)
SteerSum(fs, i, k) ==
    IF k > Len(fs[i].neighbors) THEN [v |-> Zero3, n |-> 0]
    ELSE LET a == Away(fs, i, fs[i].neighbors[k])
             r == SteerSum(fs, i, k + 1)
         IN  [v |-> VAdd(a.v, r.v), n |-> a.n + r.n]

separationForce(fs, i) ==
    LET s == SteerSum(fs, i, 1)
    IN  IF s.n > 0 THEN VScale(s.v, 1, s.n) ELSE s.v

-----------------------------------------------------------------------------
(* fish.js: updateFish *)

\* the naive neighbour pass: j is pushed to i's list when the pair is closer
\* than the prefilter radius; the pushes reach a list in ascending index order
RECURSIVE NeighborList(_, _, _)
NeighborList(fs, i, j) ==
    IF j > Len(fs) THEN << >>
    ELSE (IF j # i /\ DistSq(fs[i].pos, fs[j].pos) < cohesionRadiusSq
          THEN <<j>> ELSE << >>) \o NeighborList(fs, i, j + 1)

\* NeighborPass without the reset: acc and the lists of the previous tick
\* stay
NeighborPassNoReset(fs) ==
    [i \in 1..Len(fs) |->
        [fs[i] EXCEPT !.neighbors = @ \o NeighborList(fs, i, 1)]]

\* reset of acc and of the lists, then the neighbour pass
NeighborPass(fs) ==
    [i \in 1..Len(fs) |->
        [fs[i] EXCEPT !.acc = Zero3, !.neighbors = NeighborList(fs, i, 1)]]

\* LimitAccel without the cap
LimitAccelUncapped(a) == a

\* limit accel
LimitAccel(a) ==
    LET aLen == Length(a)
    IN  IF aLen > maxAccel THEN VScale(a, maxAccel, aLen) ELSE a

\* ClampSpeed without its lower bound
ClampSpeedNoFloor(v) ==
    LET sp == Length(v)
    IN  IF sp > fish_maxSpeed THEN VScale(v, fish_maxSpeed, sp) ELSE v

\* clamp speed; a zero vector times minSpeed / 1e-6 is the zero vector
ClampSpeed(v) ==
    LET sp == Length(v)
    IN  IF sp < fish_minSpeed
        THEN (IF sp = 0 THEN v ELSE VScale(v, fish_minSpeed, sp))
        ELSE IF sp > fish_maxSpeed THEN VScale(v, fish_maxSpeed, sp)
        ELSE v

\* Transition with the peel tested against reentryHeight
TransitionAtReentry(f) ==
    IF f.mode = "ascend" /\ f.pos.y >= reentryHeight
    THEN [f EXCEPT !.mode = "descend"]
    ELSE IF f.mode = "descend" /\ f.pos.y <= reentryHeight
         THEN [f EXCEPT !.mode = "ascend", !.vel.y = AscentRate(innerRing)]
         ELSE f

\* Transition with the peel only above peelHeight
TransitionStrict(f) ==
    IF f.mode = "ascend" /\ f.pos.y > peelHeight
    THEN [f EXCEPT !.mode = "descend"]
    ELSE IF f.mode = "descend" /\ f.pos.y <= reentryHeight
         THEN [f EXCEPT !.mode = "ascend", !.vel.y = AscentRate(innerRing)]
         ELSE f

\* Transition without the snap of vel.y
TransitionNoSnap(f) ==
    IF f.mode = "ascend" /\ f.pos.y >= peelHeight
    THEN [f EXCEPT !.mode = "descend"]
    ELSE IF f.mode = "descend" /\ f.pos.y <= reentryHeight
         THEN [f EXCEPT !.mode = "ascend"]
         ELSE f

\* state transitions: peel at top, re-enter at bottom (the snap of vel.y
\* belongs to the re-entry)
Transition(f) ==
    IF f.mode = "ascend" /\ f.pos.y >= peelHeight
    THEN [f EXCEPT !.mode = "descend"]
    ELSE IF f.mode = "descend" /\ f.pos.y <= reentryHeight
         THEN [f EXCEPT !.mode = "ascend", !.vel.y = AscentRate(innerRing)]
         ELSE f

\* ClampHeight without the clamp
ClampHeightOff(f) == f

\* keep within vertical bounds
ClampHeight(f) ==
    [f EXCEPT !.pos.y = IF @ > halfH THEN halfH
                        ELSE IF @ < -halfH THEN -halfH ELSE @]

\* Advance by the full step of a frame, whatever scaledDt is
AdvanceFixedStep(pos, vel, scaledDt) == VAdd(pos, VScale(vel, DtCap * 100, 1000 * 100))

\* pos.addScaledVector(vel, scaledDt); scaledDt is in ms * hundredths
Advance(pos, vel, scaledDt) == VAdd(pos, VScale(vel, scaledDt, 1000 * 100))

\* f.radius of a fish at pos
RadiusAt(pos) == Sqrt(pos.x * pos.x + pos.z * pos.z)

\* the position update of fish f with its new acc and vel, and its radius
Displaced(f, acc, vel, scaledDt) ==
    [f EXCEPT !.acc = acc, !.vel = vel,
              !.pos = Advance(f.pos, vel, scaledDt),
              !.radius = RadiusAt(Advance(f.pos, vel, scaledDt))]

\* vel.add(acc) and the speed clamp of fish f with its new acc, then the
\* position update
Accelerated(f, acc, scaledDt) ==
    Displaced(f, acc, ClampSpeed(VAdd(f.vel, acc)), scaledDt)

\* the force loop's body for fish i up to the position update: forces,
\* acceleration cap, speed clamp, position, radius; it reads the positions
\* the fish before it already have
Integrate(fs, i, scaledDt) ==
    Accelerated(fs[i],
                LimitAccel(VAdd(VAdd(fs[i].acc, vortexConveyorForce(fs[i])),
                                VScale(separationForce(fs, i), fish_separationWeight, 10))),
                scaledDt)

\* UpdateOne with the state transition ahead of the forces and the position
\* update
UpdateOneTransitionFirst(fs, i, scaledDt) ==
    [fs EXCEPT ![i] = ClampHeight(Integrate([fs EXCEPT ![i] = Transition(fs[i])],
                                            i, scaledDt))]

UpdateOne(fs, i, scaledDt) ==
    [fs EXCEPT ![i] = ClampHeight(Transition(Integrate(fs, i, scaledDt)))]

RECURSIVE ForceLoop(_, _, _)
ForceLoop(fs, i, scaledDt) ==
    IF i > Len(fs) THEN fs
    ELSE ForceLoop(UpdateOne(fs, i, scaledDt), i + 1, scaledDt)

updateFish(fs, dt, mult) == ForceLoop(NeighborPass(fs), 1, dt * mult)

\* the number a Float32Array holds for a hundredths, rounded to single
\* precision: the float m / 2^k next to a / 100, with a mantissa m of 24
\* bits (50 * 2^24 = 838860800 <= |a| * 2^k < 100 * 2^24); k counts up from
\* 0, by 8 while |a| * 2^8 stays below 50 * 2^24
RECURSIVE Fround(_, _)
Fround(a, k) ==
    IF a = 0 THEN [m |-> 0, k |-> 0]
    ELSE IF a >= 838860800 THEN [m |-> (a + 50) \div 100, k |-> k]
    ELSE IF a <= -838860800 THEN [m |-> -((50 - a) \div 100), k |-> k]
    ELSE IF a < 3276800 /\ a > -3276800 THEN Fround(a * 256, k + 8)
    ELSE Fround(a * 2, k + 1)

\* updateGeometry with the special array written from the last fish
updateGeometryLastSpecial(fs, buffer) ==
    LET stored(p) == Vec(Fround(p.x, 0), Fround(p.y, 0), Fround(p.z, 0))
    IN  [positions |-> [i \in DOMAIN buffer |-> stored(fs[i].pos)],
         a |-> stored(fs[Len(fs)].pos)]

\* updateGeometry(): the entries of the position array (three numbers to
\* an entry) and the array a of the special fish, fish[specialFishIndex];
\* a write beyond the end of a Float32Array is dropped
updateGeometry(fs, buffer) ==
    LET stored(p) == Vec(Fround(p.x, 0), Fround(p.y, 0), Fround(p.z, 0))
    IN  [positions |-> [i \in DOMAIN buffer |-> stored(fs[i].pos)],
         a |-> stored(fs[1].pos)]

-----------------------------------------------------------------------------
(* fish.js: initFish, onMouseMove, animate *)

\* draws of Math.random() in initFish: the angle (as its cosine and sine),
\* the offset from the inner ring in [-0.2, 0.2) and the height above -halfH
\* in [0, 5)
FishDraws ==
    { [c |-> Unit, s |-> 0, dr |-> -20, dy |-> 0],
      [c |-> Unit, s |-> 0, dr |-> 19, dy |-> 150] }

NewFish(d) ==
    LET r == innerRing + d.dr
    IN  [pos |-> Vec(RDiv(r * d.c, Unit), -halfH + d.dy, RDiv(r * d.s, Unit)),
         vel |-> Vec(RDiv(-d.s * baseTangentialSpeed, Unit),
                     AscentRate(innerRing),
                     RDiv(d.c * baseTangentialSpeed, Unit)),
         acc |-> Zero3,
         radius |-> r,
         mode |-> "ascend",
         neighbors |-> << >>]

\* mouse events: clientX, clientY in the window
MouseEvents == { [clientX |-> 400, clientY |-> 300], [clientX |-> 0, clientY |-> 0] }

\* speedMultiplier of onMouseMove, in hundredths (distances in pixels)
SpeedOf(ev) ==
    LET centerX == Window.innerWidth \div 2
        centerY == Window.innerHeight \div 2
        dx == ev.clientX - centerX
        dy == ev.clientY - centerY
        distanceFromCenter == Sqrt(dx * dx + dy * dy)
        maxDistance == Sqrt(centerX * centerX + centerY * centerY)
        normalizedDistance == Min(RDiv(distanceFromCenter * Unit, maxDistance), Unit)
    IN  maxSpeedMultiplier
          - RDiv(normalizedDistance * (maxSpeedMultiplier - minSpeedMultiplier), Unit)

\* clock readings of animate, as currentTime - lastTime in milliseconds;
\* Date.now() may step backwards
Elapsed == {-16, 0, 16, 1000}

\* deltaTime of animate
DeltaTime(elapsed) == Min(elapsed, DtCap)

\* the init() calls of one observer callback over a batch of n mutation
\* records, without the test of scene: one call per record
InitRunsUnguarded(n, active, hasScene) == IF active THEN n ELSE 0

\* the init() calls of one observer callback over a batch of n mutation
\* records, with scene tested once for the batch
InitRunsBatchTest(n, active, hasScene) == IF active /\ ~hasScene THEN n ELSE 0

\* the init() calls of one observer callback over a batch of n mutation
\* records; every record names the container, whose class list is read
\* when the callback runs, and init() sets scene
RECURSIVE InitRuns(_, _, _)
InitRuns(n, active, hasScene) ==
    IF n = 0 THEN 0
    ELSE IF active /\ ~hasScene THEN 1 + InitRuns(n - 1, active, TRUE)
    ELSE InitRuns(n - 1, active, hasScene)

\* init() run runs times, up to the call of animate() that ends it:
\* initFish() pushes numFish fish onto the array at each run
FishInit(runs) ==
    IF runs = 0 THEN UNCHANGED <<fish, specialFish, positions, scene>>
    ELSE /\ \E ds \in [1..NumFish * runs -> FishDraws] :
              fish' = fish \o [i \in 1..NumFish * runs |-> NewFish(ds[i])]
         /\ positions' = updateGeometry(SubSeq(fish', Len(fish') - NumFish + 1, Len(fish')),
                                        [i \in 1..NumFish |-> Zero3]).positions
         /\ specialFish' = <<updateGeometry(fish', << >>).a>>
         /\ scene' = "built"

\* the bootstrap at the end of the script: the observer is registered, and
\* init() runs when the container is active already
FishLoad ==
    /\ sim = "fish"
    /\ ~tab.loaded
    /\ FishInit(IF tab.active THEN 1 ELSE 0)
    /\ tab' = [tab EXCEPT !.loaded = TRUE,
                          !.loops = IF tab.active THEN @ + 1 ELSE @]
    /\ UNCHANGED <<sim, frames, budget, speedMultiplier, velocities, mouse,
                   deltaTime, huddleVars>>

\* the page changes the class attribute of the container: a mutation
\* record is queued for the observer.  No event comes between init() and
\* the animate() it calls.  A class change of a running page is the only
\* free step of its run.
FishClassChange ==
    /\ sim = "fish"
    /\ tab.loaded
    /\ scene # "built"
    /\ tab.pending < MaxBatch
    /\ scene = "none" \/ budget = MaxFree
    /\ \E a \in BOOLEAN : tab' = [tab EXCEPT !.active = a, !.pending = @ + 1]
    /\ budget' = IF scene = "none" THEN budget ELSE 0
    /\ UNCHANGED <<sim, frames, fish, specialFish, scene, speedMultiplier, positions, velocities,
                   mouse, deltaTime, huddleVars>>

\* the observer callback with the queued mutation records
FishObserve ==
    /\ sim = "fish"
    /\ tab.pending > 0
    /\ scene # "built"
    /\ FishInit(InitRuns(tab.pending, tab.active, scene # "none"))
    /\ tab' = [tab EXCEPT !.pending = 0,
                          !.loops = @ + InitRuns(tab.pending, tab.active, scene # "none")]
    /\ UNCHANGED <<sim, frames, budget, speedMultiplier, velocities, mouse,
                   deltaTime, huddleVars>>

\* onMouseMove
FishMouseMove ==
    /\ sim = "fish"
    /\ scene = "running"
    /\ frames = 1 \/ budget > 0
    /\ \E ev \in MouseEvents : speedMultiplier' = SpeedOf(ev)
    /\ budget' = IF frames = 1 THEN budget ELSE budget - 1
    /\ UNCHANGED <<sim, tab, frames, fish, specialFish, scene, positions, velocities, mouse, deltaTime, huddleVars>>

\* animate: the call that ends init() reads lastTime = 0, so its step is the
\* cap; later frames read the clock
FishAnimate ==
    /\ sim = "fish"
    /\ scene \in {"built", "running"}
    /\ frames < MaxFrames
    /\ \E e \in Elapsed :
          /\ scene = "built" => e >= DtCap
          /\ IF e >= DtCap THEN budget = MaxFree /\ budget' = budget
             ELSE budget > 0 /\ budget' = budget - 1
          /\ deltaTime' = DeltaTime(e)
          /\ fish' = updateFish(fish, DeltaTime(e), speedMultiplier)
    /\ \E written \in {updateGeometry(fish', positions)} :
          /\ positions' = written.positions
          /\ specialFish' = IF specialFish = << >> THEN specialFish ELSE <<written.a>>
    /\ frames' = frames + 1
    /\ scene' = "running"
    /\ UNCHANGED <<sim, tab, speedMultiplier, velocities, mouse, huddleVars>>

-----------------------------------------------------------------------------
(* main.js: boids without a time step.  positions and velocities are the   *)
(* Float32Array buffers, one vector per bird; a vector is NaN3 when its    *)
(* three numbers are NaN.                                                  *)

perceptionRadius == 2000
main_maxSpeed == 100
maxForce == 8
\* weights in tenths
alignmentWeight == 10
cohesionWeight == 9
main_separationWeight == 11
\* the wall of the soft boundary and its nudge
main_wall == 4000
main_nudge == 10

\* IEEE NaN, kept apart from every number of the model
NaN == -(2 ^ 30)
NaN3 == Vec(NaN, NaN, NaN)
IsNaN(v) == v.x = NaN

\* Vector3.setLength(l): normalize() divides by (length() || 1)
SetLength(v, l) ==
    LET len == Length(v)
    IN  IF len = 0 THEN v ELSE VScale(v, l, len)

\* Vector3.clampLength(0, max)
ClampLength(v, max) ==
    LET len == Length(v)
    IN  IF len > max THEN VScale(v, max, len) ELSE v

\* the sums of the inner loop of flock() over the birds j >= k other than i
\* that are nearer than perceptionRadius: velocities, positions, unit
\* vectors away, and their count; bad says that a distance was 0, where
\* diff.divideScalar(distance) is 0 / 0.  A NaN distance compares false.
RECURSIVE MainSums(_, _, _, _)
MainSums(ps, vs, i, k) ==
    IF k > Len(ps)
    THEN [al |-> Zero3, co |-> Zero3, se |-> Zero3, total |-> 0, bad |-> FALSE]
    ELSE LET r == MainSums(ps, vs, i, k + 1)
             distance == Length(VSub(ps[i], ps[k]))
         IN  IF k = i \/ IsNaN(ps[k]) \/ distance >= perceptionRadius THEN r
             ELSE [al |-> IF IsNaN(vs[k]) THEN NaN3 ELSE VAdd(r.al, vs[k]),
                   co |-> VAdd(r.co, ps[k]),
                   se |-> IF distance = 0 THEN r.se
                          ELSE VAdd(r.se, VScale(VSub(ps[i], ps[k]), Unit, distance)),
                   total |-> r.total + 1,
                   bad |-> r.bad \/ distance = 0 \/ IsNaN(vs[k])]

\* steering of one rule: setLength(maxSpeed), sub(vel), clampLength(0, maxForce)
Steer(desired, vel) ==
    ClampLength(VSub(SetLength(desired, main_maxSpeed), vel), maxForce)

\* the three rule vectors, weighted, from the sums s of the inner loop
MainSteering(s, pos, vel) ==
    IF s.total = 0 THEN [al |-> Zero3, co |-> Zero3, se |-> Zero3]
    ELSE [al |-> VScale(Steer(VScale(s.al, 1, s.total), vel),
                        alignmentWeight, 10),
          co |-> VScale(Steer(VSub(VScale(s.co, 1, s.total), pos), vel),
                        cohesionWeight, 10),
          se |-> VScale(Steer(VScale(s.se, 1, s.total), vel),
                        main_separationWeight, 10)]

\* the three rule vectors flock() adds to the velocity of bird i, weighted
MainForces(ps, vs, i) == MainSteering(MainSums(ps, vs, i, 1), ps[i], vs[i])

\* vel.add of the three rule vectors f
MainAccelerate(vel, f) == VAdd(VAdd(VAdd(vel, f.al), f.co), f.se)

\* the nudge of the soft boundary on one axis, from the new coordinate
MainNudge(p) == IF p > main_wall THEN -main_nudge
                ELSE IF p < -main_wall THEN main_nudge ELSE 0

\* the nudges of the three axes
MainNudges(pos) == Vec(MainNudge(pos.x), MainNudge(pos.y), MainNudge(pos.z))

\* pos.add(vel), then the nudges of the walls the new position is beyond
MainMove(pos, vel) ==
    [pos |-> VAdd(pos, vel),
     vel |-> VAdd(vel, MainNudges(VAdd(pos, vel)))]

\* the body of flock() for bird i: the new position and velocity
MainBird(ps, vs, i) ==
    IF IsNaN(ps[i]) \/ IsNaN(vs[i]) \/ MainSums(ps, vs, i, 1).bad
    THEN [pos |-> NaN3, vel |-> NaN3]
    ELSE MainMove(ps[i], ClampLength(MainAccelerate(vs[i], MainForces(ps, vs, i)),
                                     main_maxSpeed))

\* the write of bird b into entry i of the buffers
MainStore(bufs, i, b) ==
    [positions |-> [bufs.positions EXCEPT ![i] = b.pos],
     velocities |-> [bufs.velocities EXCEPT ![i] = b.vel]]

\* flock() from bird i on with every bird computed from the buffers as they
\* were before the loop
MainFlockSnapshot(bufs, i) ==
    [positions |-> [k \in DOMAIN bufs.positions |->
                       IF k >= i THEN MainBird(bufs.positions, bufs.velocities, k).pos
                       ELSE bufs.positions[k]],
     velocities |-> [k \in DOMAIN bufs.velocities |->
                       IF k >= i THEN MainBird(bufs.positions, bufs.velocities, k).vel
                       ELSE bufs.velocities[k]]]

\* flock(): the birds in index order, each writing its buffers entries
RECURSIVE MainFlock(_, _)
MainFlock(bufs, i) ==
    IF i > Len(bufs.positions) THEN bufs
    ELSE MainFlock(MainStore(bufs, i, MainBird(bufs.positions, bufs.velocities, i)),
                   i + 1)

\* draws of Math.random() in init(): a position in [-40, 40)^3 and a
\* velocity in [-0.5, 0.5)^3
MainDraws ==
    { [pos |-> Vec(3950, 0, 0), vel |-> Vec(49, 0, 0)],
      [pos |-> Vec(3950, 300, 0), vel |-> Vec(49, 40, 0)],
      [pos |-> Vec(-3950, 0, 0), vel |-> Vec(-49, 0, 0)] }

\* init() of main.js
MainInit ==
    /\ sim = "main"
    /\ scene = "none"
    /\ \E ds \in [1..BirdCount -> MainDraws] :
          /\ positions' = [i \in 1..BirdCount |-> ds[i].pos]
          /\ velocities' = [i \in 1..BirdCount |-> ds[i].vel]
    /\ scene' = "running"
    /\ UNCHANGED <<sim, tab, frames, budget, fish, specialFish, speedMultiplier, mouse, deltaTime, huddleVars>>

\* animate() of main.js
MainAnimate ==
    /\ sim = "main"
    /\ scene = "running"
    /\ frames < MaxFrames
    /\ \E r \in {MainFlock([positions |-> positions, velocities |-> velocities], 1)} :
          positions' = r.positions /\ velocities' = r.velocities
    /\ frames' = frames + 1
    /\ UNCHANGED <<sim, tab, budget, fish, specialFish, speedMultiplier, scene, mouse, deltaTime, huddleVars>>
-----------------------------------------------------------------------------
(* starling.js: zone-based boids with a time step and a mouse ray.         *)
(* It uses the buffers positions and velocities as main.js does.           *)

separation == 1500
alignment == 2000
cohesion == 2500
speedLimit == 900
rayRadius == 15000
\* cap of the frame step of animate, milliseconds
StepCap == 1000
\* soft boundary
boundaryLimit == 4000
boundaryMargin == 1000
\* boundaryForce, hundredths
boundaryForce == 5
\* camera.position.z and Math.tan of half the field of view (75 degrees),
\* in thousandths
cameraZ == 35000
TanHalfFov == 767

\* camera.aspect, in hundredths
Aspect == RDiv(Window.innerWidth * 100, Window.innerHeight)

zoneRadius == separation + alignment + cohesion
zoneRadiusSq == zoneRadius * zoneRadius
\* separationThresh and alignmentThresh, in ten-thousandths
separationThresh == RDiv(separation * 10000, zoneRadius)
alignmentThresh == RDiv((separation + alignment) * 10000, zoneRadius)

\* Math.cos(p * 2 * Math.PI) in thousandths, p in ten-thousandths of a turn,
\* by the rational approximation cos(u * pi / 2) = (1 - u^2) / (1 + u^2 / 4)
\* on each quarter turn (error below 0.002)
CosQuarter(u) == RDiv((1000000 - u * u) * 1000, 1000000 + (u * u) \div 4)
CosTurn(p) ==
    LET t == IF p > 5000 THEN 10000 - p ELSE p
    IN  IF t <= 2500 THEN CosQuarter(RDiv(t * 4, 10))
        ELSE -CosQuarter(RDiv((5000 - t) * 4, 10))

\* Raycaster.setFromCamera(mouse, camera): the ray from the camera through
\* the cursor; origin in hundredths, direction in ten-thousandths
RayOrigin == Vec(0, 0, cameraZ)
RayDirection(m) ==
    NormalizeTo(Vec(RDiv(m.x * TanHalfFov * Aspect, 100 * 100),
                    RDiv(m.y * TanHalfFov, 100), -1000), 10000)

\* the vector from pos to the closest point of the ray of direction dir, and
\* its squared length in tenths squared
ClosestPoint(pos, dir) ==
    LET directionToRay == VSub(RayOrigin, pos)
        projectionLength ==
            RDiv(directionToRay.x * dir.x + directionToRay.y * dir.y
                   + directionToRay.z * dir.z, 10000)
        closestPoint == VSub(RayOrigin, VScale(dir, projectionLength, 10000))
        directionToClosestPoint == VSub(closestPoint, pos)
    IN  [dir |-> directionToClosestPoint,
         sq |-> LenSq(VScale(directionToClosestPoint, 1, 10))]

\* the squared distance of pos from the ray, in tenths squared
DistanceToRay(pos, m) == ClosestPoint(pos, RayDirection(m))

rayRadiusSq == (rayRadius \div 10) * (rayRadius \div 10)

InRay(pos, m) == DistanceToRay(pos, m).sq < rayRadiusSq

\* limit of bird i: speedLimit, and 5 more inside the ray radius
Limit(pos, m) == IF InRay(pos, m) THEN speedLimit + 5 * Unit ELSE speedLimit

\* the push away from the mouse ray, dt in milliseconds
RayPush(pos, m, dt) ==
    LET r == DistanceToRay(pos, m)
        velocityAdjust ==
            RDiv((RDiv(r.sq, rayRadiusSq \div 10000) - 10000) * dt, 1000)
    IN  IF r.sq < rayRadiusSq THEN NormalizeTo(r.dir, velocityAdjust) ELSE Zero3

\* attract flocks to center
CenterPull(pos, dt) ==
    NormalizeTo(Vec(pos.x, RDiv(pos.y * 25, 10), pos.z), -RDiv(dt * 5 * Unit, 1000))

\* (separationThresh / percent - 1.0) * deltaTime, in hundredths
SeparationAdjust(distSq, dt) ==
    LET q == RDiv(((separationThresh * (zoneRadiusSq \div 10000)) - distSq) * 100, distSq)
    IN  IF q > 1000000 THEN RDiv(q, 1000) * dt ELSE RDiv(q * dt, 1000)

\* the change of velocity that bird j causes in bird i
ZoneForce(ps, vs, i, j, dt) ==
    LET dirToBird == VSub(ps[j], ps[i])
        far == MaxAbs(dirToBird) > zoneRadius
        distToBirdSq == IF far THEN zoneRadiusSq + 1 ELSE LenSq(dirToBird)
        percent == RDiv(distToBirdSq, zoneRadiusSq \div 10000)
    IN  IF distToBirdSq = 0 \/ distToBirdSq > zoneRadiusSq THEN Zero3
        ELSE IF percent < separationThresh
        THEN NormalizeTo(dirToBird, -SeparationAdjust(distToBirdSq, dt))
        ELSE IF percent < alignmentThresh
        THEN LET adjustedPercent ==
                     RDiv((percent - separationThresh) * 10000,
                          alignmentThresh - separationThresh)
                 cosRange == CosTurn(adjustedPercent)
             IN  NormalizeTo(vs[j], RDiv((2000 - cosRange) * dt, 20000))
        ELSE LET threshDelta == 10000 - alignmentThresh
                 adjustedPercent ==
                     IF threshDelta = 0 THEN 10000
                     ELSE RDiv((percent - alignmentThresh) * 10000, threshDelta)
                 cosRange == CosTurn(adjustedPercent)
             IN  NormalizeTo(dirToBird, RDiv(cosRange * dt, 20000))

\* the inner loop of flock() over the birds j >= k other than i
RECURSIVE ZoneLoop(_, _, _, _, _, _)
ZoneLoop(ps, vs, vel, i, k, dt) ==
    IF k > Len(ps) THEN vel
    ELSE ZoneLoop(ps, vs,
                  IF k = i THEN vel ELSE VAdd(vel, ZoneForce(ps, vs, i, k, dt)),
                  i, k + 1, dt)

\* LimitVelocity with the comparison reversed
LimitVelocityReversed(vel, limit) ==
    IF Length(vel) < limit THEN NormalizeTo(vel, limit) ELSE vel

\* limit velocity
LimitVelocity(vel, limit) ==
    IF Length(vel) > limit THEN NormalizeTo(vel, limit) ELSE vel

\* the nudge of the soft boundary on one axis, from the new coordinate
SoftBoundary(p) ==
    IF p > boundaryLimit - boundaryMargin
    THEN -RDiv(boundaryForce * (boundaryMargin - (boundaryLimit - p)), boundaryMargin)
    ELSE IF p < -boundaryLimit + boundaryMargin
         THEN RDiv(boundaryForce * (boundaryMargin - (p + boundaryLimit)), boundaryMargin)
         ELSE 0

\* the nudges of the three axes
SoftBoundaries(pos) ==
    Vec(SoftBoundary(pos.x), SoftBoundary(pos.y), SoftBoundary(pos.z))

\* the velocity of bird i after the forces and the limit
StarlingVelocity(ps, vs, m, i, dt) ==
    LET pushed == VAdd(VAdd(vs[i], RayPush(ps[i], m, dt)), CenterPull(ps[i], dt))
    IN  LimitVelocity(ZoneLoop(ps, vs, pushed, i, 1, dt), Limit(ps[i], m))

\* the position update, then the soft boundaries at the new position
StarlingMove(pos, vel, dt) ==
    [pos |-> VAdd(pos, VScale(vel, dt * 15, 1000)),
     vel |-> VAdd(vel, SoftBoundaries(VAdd(pos, VScale(vel, dt * 15, 1000))))]

\* the body of flock(deltaTime) for bird i: the new position and velocity
StarlingBird(ps, vs, m, i, dt) ==
    StarlingMove(ps[i], StarlingVelocity(ps, vs, m, i, dt), dt)

\* the write of bird b into entry i of the buffers
StarlingStore(bufs, i, b) ==
    [positions |-> [bufs.positions EXCEPT ![i] = b.pos],
     velocities |-> [bufs.velocities EXCEPT ![i] = b.vel]]

\* flock(deltaTime): the birds in index order, each writing its entries
RECURSIVE StarlingFlock(_, _, _, _)
StarlingFlock(bufs, m, i, dt) ==
    IF i > Len(bufs.positions) THEN bufs
    ELSE StarlingFlock(StarlingStore(bufs, i,
                           StarlingBird(bufs.positions, bufs.velocities, m, i, dt)),
                       m, i + 1, dt)

\* draws of Math.random() in init(): a position in [-40, 40)^3 and a
\* velocity in [-5, 5)^3
StarlingDraws ==
    { [pos |-> Vec(3900, 0, 0), vel |-> Vec(-499, 0, 0)],
      [pos |-> Vec(3900, 500, 0), vel |-> Vec(400, 300, 0)] }

\* clock readings of animate, as now - lastTime in milliseconds
\* (performance.now() never steps backwards)
StarlingElapsed == {0, 16, 2000}
\* the frame period of a steady run
FramePeriod == 16

\* mouse.x, mouse.y of onMouseMove, in hundredths
MouseOf(ev) ==
    [x |-> RDiv(ev.clientX * 2 * Unit, Window.innerWidth) - Unit,
     y |-> -RDiv(ev.clientY * 2 * Unit, Window.innerHeight) + Unit]

\* init() of starling.js
StarlingInit ==
    /\ sim = "starling"
    /\ scene = "none"
    /\ \E ds \in [1..BirdCount -> StarlingDraws] :
          /\ positions' = [i \in 1..BirdCount |-> ds[i].pos]
          /\ velocities' = [i \in 1..BirdCount |-> ds[i].vel]
    /\ scene' = "running"
    /\ UNCHANGED <<sim, tab, frames, budget, fish, specialFish, speedMultiplier, mouse, deltaTime, huddleVars>>

\* onMouseMove of starling.js
StarlingMouseMove ==
    /\ sim = "starling"
    /\ scene = "running"
    /\ frames = 0 \/ budget > 0
    /\ \E ev \in MouseEvents : mouse' = MouseOf(ev)
    /\ budget' = IF frames = 0 THEN budget ELSE budget - 1
    /\ UNCHANGED <<sim, tab, frames, scene, fish, specialFish, speedMultiplier, positions, velocities,
                   deltaTime, huddleVars>>

\* animate() of starling.js
StarlingAnimate ==
    /\ sim = "starling"
    /\ scene = "running"
    /\ frames < MaxFrames
    /\ \E e \in StarlingElapsed :
          /\ IF e = FramePeriod THEN budget = MaxFree /\ budget' = budget
             ELSE budget > 0 /\ budget' = budget - 1
          /\ deltaTime' = Min(e, StepCap)
          /\ \E r \in {StarlingFlock([positions |-> positions, velocities |-> velocities],
                                      mouse, 1, Min(e, StepCap))} :
                positions' = r.positions /\ velocities' = r.velocities
    /\ frames' = frames + 1
    /\ UNCHANGED <<sim, tab, scene, fish, specialFish, speedMultiplier, mouse, huddleVars>>
-----------------------------------------------------------------------------
(* penguins.js: the huddle.  Pixels and pixels per frame in hundredths,     *)
(* angles and the spiral phase in AngleUnit-ths of a radian, heat in       *)
(* HeatUnit-ths, cursorInfluenceStrength in hundredths.                    *)

AngleUnit == 1000 * Unit
HeatUnit == 100 * Unit
PI == 314159
TWO_PI == 628319

d0 == 700
huddleRadius == 23000
\* spiralSpeed, in AngleUnit-ths of a radian per frame
spiralSpeed == 200
\* cohesionStrength * 0.01, in thousandths
cohesionStrength == 15
\* separationStrength, in tenths
separationStrength == 8
maxDistFromCenter == 30000
\* moveSpeed * 0.1, in hundredths of a pixel per frame
moveSpeed == 8
cursorInfluenceRadius == 15000
heatRadius == d0 * 10
\* heatGainRate, heatLossRate, in hundredths
heatGainRate == 3
heatLossRate == 2
maxHeat == 10 * HeatUnit
minHeat == 0
\* the neighbor search radius d0 * 8 and the length of a neighbor list
searchRadius == d0 * 8
neighborCap == 20
\* frames between two refreshes of the neighbor lists
refreshPeriod == 15
\* velocity damping, in hundredths
damping == 85
\* layers of setup() and the smallest number of penguins of a layer
layers == 14
minPerLayer == 6

\* width / 2, height / 2
centerX == (Window.innerWidth * Unit) \div 2
centerY == (Window.innerHeight * Unit) \div 2

\* sin of an angle in [0, PI], in hundredths (the angle in thousandths)
SinHalfTurn(m) ==
    LET p == m * (RDiv(PI, 100) - m)
    IN  RDiv(16 * p, RDiv(5 * RDiv(PI, 100) * RDiv(PI, 100) - 4 * p, Unit))

\* sin(a), cos(a) in hundredths, a in AngleUnit-ths of a radian
sin(a) ==
    LET m == RDiv(a % TWO_PI, 100)
    IN  IF m <= RDiv(PI, 100) THEN SinHalfTurn(m)
        ELSE -SinHalfTurn(Min(m, RDiv(TWO_PI, 100)) - RDiv(PI, 100))
cos(a) == sin(a + RDiv(PI, 2))

\* dist(x1, y1, x2, y2)
dist(x1, y1, x2, y2) == Length(Vec(x1 - x2, y1 - y2, 0))

\* constrain(v, lo, hi)
constrain(v, lo, hi) == IF v < lo THEN lo ELSE IF v > hi THEN hi ELSE v

\* lerp with the step taken away from b
lerpReversed(a, b, t) == a - RDiv((b - a) * t, 100)

\* lerp(a, b, t), t in hundredths
lerp(a, b, t) == a + RDiv((b - a) * t, 100)

\* InitialHeat on a scale of 0 to 100
InitialHeatPercent(radius) ==
    100 * (RDiv(6 * HeatUnit, 10) - RDiv(5 * HeatUnit * radius, 10 * huddleRadius))

\* the heat of a new penguin: map(radius / huddleRadius, 0, 1, 0.6, 0.1)
InitialHeat(radius) ==
    RDiv(6 * HeatUnit, 10) - RDiv(5 * HeatUnit * radius, 10 * huddleRadius)

\* new Penguin(angle, radius, isSpecial), spiralPhase the draw of
\* random(TWO_PI)
Penguin(angle, radius, isSpecial, phase) ==
    [angle |-> angle, radius |-> radius, spiralPhase |-> phase,
     isSpecial |-> isSpecial,
     x |-> centerX + RDiv(cos(angle) * radius, Unit),
     y |-> centerY + RDiv(sin(angle) * radius, Unit),
     vx |-> 0, vy |-> 0,
     heatIntensity |-> InitialHeat(radius),
     neighbors |-> << >>,
     cursorInfluenceStrength |-> 0]

\* the entry j put into the sorted list before the entries as far away
RECURSIVE InsertBeforeEqual(_, _, _, _)
InsertBeforeEqual(ps, i, j, sorted) ==
    IF sorted = << >> THEN <<j>>
    ELSE IF dist(ps[i].x, ps[i].y, ps[Head(sorted)].x, ps[Head(sorted)].y)
            < dist(ps[i].x, ps[i].y, ps[j].x, ps[j].y)
         THEN <<Head(sorted)>> \o InsertBeforeEqual(ps, i, j, Tail(sorted))
         ELSE <<j>> \o sorted

\* distances.sort: the entry j put into a list sorted by distance from i,
\* behind the entries that are not farther
RECURSIVE Insert(_, _, _, _)
Insert(ps, i, j, sorted) ==
    IF sorted = << >> THEN <<j>>
    ELSE IF dist(ps[i].x, ps[i].y, ps[Head(sorted)].x, ps[Head(sorted)].y)
            <= dist(ps[i].x, ps[i].y, ps[j].x, ps[j].y)
         THEN <<Head(sorted)>> \o Insert(ps, i, j, Tail(sorted))
         ELSE <<j>> \o sorted

\* the loop of findNeighbors over the penguins j..Len(ps), and the sort
RECURSIVE Distances(_, _, _, _)
Distances(ps, i, j, sorted) ==
    IF j > Len(ps) THEN sorted
    ELSE Distances(ps, i, j + 1,
             IF j /= i /\ dist(ps[i].x, ps[i].y, ps[j].x, ps[j].y) < searchRadius
             THEN Insert(ps, i, j, sorted) ELSE sorted)

\* findNeighbors(allPenguins) of penguin i: its new neighbor list
findNeighbors(ps, i) ==
    LET distances == Distances(ps, i, 1, << >>)
    IN  SubSeq(distances, 1, Min(Len(distances), neighborCap))

\* the loop of setup() and of draw() that refreshes every neighbor list
RefreshAll(ps) == [i \in 1..Len(ps) |-> [ps[i] EXCEPT !.neighbors = findNeighbors(ps, i)]]

\* applyCursorInfluence()
applyCursorInfluence(p, mx, my) ==
    LET distToCursor == dist(p.x, p.y, mx, my)
        s == Unit - RDiv(distToCursor * Unit, cursorInfluenceRadius)
    IN  [p EXCEPT !.cursorInfluenceStrength =
            IF distToCursor < cursorInfluenceRadius THEN RDiv(s * s, Unit) ELSE 0]

\* the target radius of spiralMovement()
SpiralRadius(p) ==
    LET base == IF p.spiralPhase < PI
                THEN RDiv(huddleRadius * RDiv(PI - p.spiralPhase, 100), RDiv(PI, 100))
                ELSE RDiv(huddleRadius * RDiv(p.spiralPhase - PI, 100), RDiv(PI, 100))
    IN  RDiv(base * (1000 - 4 * p.cursorInfluenceStrength), 1000)

\* NextPhase without the reset
NextPhaseNoReset(p) == p.spiralPhase + (spiralSpeed - p.cursorInfluenceStrength)

\* NextPhase with the reset after half a turn
NextPhaseHalfTurn(p) ==
    LET next == p.spiralPhase + (spiralSpeed - p.cursorInfluenceStrength)
    IN  IF next > PI THEN 0 ELSE next

\* NextPhase with the whole of cursorInfluenceStrength taken off the increment
NextPhaseStalling(p) ==
    LET next == p.spiralPhase + (spiralSpeed - 2 * p.cursorInfluenceStrength)
    IN  IF next > TWO_PI THEN 0 ELSE next

\* the phase increment of spiralMovement() and its reset
NextPhase(p) ==
    LET next == p.spiralPhase + (spiralSpeed - p.cursorInfluenceStrength)
    IN  IF next > TWO_PI THEN 0 ELSE next

\* spiralMovement()
spiralMovement(p) ==
    LET targetRadius == SpiralRadius(p)
        spiralAngle == p.angle + p.spiralPhase \div 2
        dx == centerX + RDiv(cos(spiralAngle) * targetRadius, Unit) - p.x
        dy == centerY + RDiv(sin(spiralAngle) * targetRadius, Unit) - p.y
        distance == Length(Vec(dx, dy, 0))
        moved == distance > 10
    IN  [p EXCEPT !.vx = IF moved THEN @ + RDiv(dx * moveSpeed, distance) ELSE @,
                  !.vy = IF moved THEN @ + RDiv(dy * moveSpeed, distance) ELSE @,
                  !.spiralPhase = NextPhase(p)]

RECURSIVE SumX(_, _)
SumX(ps, ns) == IF ns = << >> THEN 0 ELSE ps[Head(ns)].x + SumX(ps, Tail(ns))
RECURSIVE SumY(_, _)
SumY(ps, ns) == IF ns = << >> THEN 0 ELSE ps[Head(ns)].y + SumY(ps, Tail(ns))

\* applyCohesion without the early return: the centroid of no neighbors is
\* taken to be (0, 0)
applyCohesionToOrigin(ps, p) ==
    LET n == Max(1, Len(p.neighbors))
        dx == RDiv(SumX(ps, p.neighbors), n) - p.x
        dy == RDiv(SumY(ps, p.neighbors), n) - p.y
        cohesionMultiplier == Unit + 3 * p.cursorInfluenceStrength
    IN  [p EXCEPT !.vx = @ + RDiv(dx * cohesionStrength * cohesionMultiplier, 1000 * Unit),
                  !.vy = @ + RDiv(dy * cohesionStrength * cohesionMultiplier, 1000 * Unit)]

\* applyCohesion() of penguin p among ps
applyCohesion(ps, p) ==
    IF Len(p.neighbors) = 0 THEN p
    ELSE LET dx == RDiv(SumX(ps, p.neighbors), Len(p.neighbors)) - p.x
             dy == RDiv(SumY(ps, p.neighbors), Len(p.neighbors)) - p.y
             cohesionMultiplier == Unit + 3 * p.cursorInfluenceStrength
         IN  [p EXCEPT !.vx = @ + RDiv(dx * cohesionStrength * cohesionMultiplier, 1000 * Unit),
                       !.vy = @ + RDiv(dy * cohesionStrength * cohesionMultiplier, 1000 * Unit)]

\* the sum of applySeparation() over the neighbors ns, in hundredths
RECURSIVE SeparationSum(_, _, _)
SeparationSum(ps, p, ns) ==
    IF ns = << >> THEN [x |-> 0, y |-> 0]
    ELSE LET other == ps[Head(ns)]
             dx == p.x - other.x
             dy == p.y - other.y
             d == Length(Vec(dx, dy, 0))
             rest == SeparationSum(ps, p, Tail(ns))
         IN  IF d < d0 /\ d > 10
             THEN [x |-> rest.x + RDiv(dx * (d0 - d) * Unit, d * d0),
                   y |-> rest.y + RDiv(dy * (d0 - d) * Unit, d * d0)]
             ELSE rest

\* applySeparation()
applySeparation(ps, p) ==
    LET s == SeparationSum(ps, p, p.neighbors)
    IN  [p EXCEPT !.vx = @ + RDiv(s.x * separationStrength, 10),
                  !.vy = @ + RDiv(s.y * separationStrength, 10)]

\* applyBoundaryForce()
applyBoundaryForce(p) ==
    LET distFromCenter == dist(p.x, p.y, centerX, centerY)
        force == distFromCenter - maxDistFromCenter
    IN  IF distFromCenter > maxDistFromCenter
        THEN [p EXCEPT !.vx = @ + RDiv((centerX - p.x) * force, 10 * maxDistFromCenter),
                       !.vy = @ + RDiv((centerY - p.y) * force, 10 * maxDistFromCenter)]
        ELSE p

\* the loop of updateHeat over the penguins j..Len(ps) other than i:
\* neighborsInRadius (n), heatContribution (hc) in HeatUnit-ths, and the
\* weighted heat (heat) in hundredths of HeatUnit-ths.  The proximity factor
\* of a penguin inside heatRadius is strictly positive.
RECURSIVE HeatSums(_, _, _)
HeatSums(ps, i, j) ==
    IF j > Len(ps) THEN [n |-> 0, hc |-> 0, heat |-> 0]
    ELSE LET rest == HeatSums(ps, i, j + 1)
             d == dist(ps[i].x, ps[i].y, ps[j].x, ps[j].y)
             t == HeatUnit - RDiv(d * HeatUnit, heatRadius)
             proximityFactor == Max(1, RDiv(t * t, HeatUnit))
         IN  IF j /= i /\ d < heatRadius
             THEN [n |-> rest.n + 1, hc |-> rest.hc + proximityFactor,
                   heat |-> rest.heat + RDiv(ps[j].heatIntensity * proximityFactor, 100)]
             ELSE rest

\* PI * (heatRadius / d0) * (heatRadius / d0) / 2, in hundredths
maxPossibleNeighbors ==
    RDiv(PI * (heatRadius \div d0) * (heatRadius \div d0), 2 * (AngleUnit \div Unit))

\* the target heat of updateHeat from the sums s of its loop
HeatTarget(s) ==
    LET generatedHeat ==
            IF s.n > 0
            THEN constrain(RDiv(RDiv(s.hc, s.n) * s.n * 2 * Unit, maxPossibleNeighbors),
                           0, HeatUnit)
            ELSE 0
        avgNeighborHeat == IF s.n > 0 THEN RDiv(s.heat * 100, s.hc) ELSE 0
    IN  RDiv(generatedHeat * 4 + avgNeighborHeat * 6, 10)

\* the target heat of updateHeat
TargetHeat(ps, i) == HeatTarget(HeatSums(ps, i, 1))

\* HeatStep with the two rates exchanged
HeatStepRatesSwapped(heat, targetHeat) ==
    LET heatChangeRate == IF targetHeat > heat THEN heatLossRate ELSE heatGainRate
    IN  constrain(lerp(heat, targetHeat, heatChangeRate), minHeat, maxHeat)

\* the smooth transition of updateHeat from heat towards targetHeat, and
\* the constrain
HeatStep(heat, targetHeat) ==
    LET heatChangeRate == IF targetHeat > heat THEN heatGainRate ELSE heatLossRate
    IN  constrain(lerp(heat, targetHeat, heatChangeRate), minHeat, maxHeat)

\* updateHeat(allPenguins) of penguin i: its new heatIntensity
updateHeat(ps, i) == HeatStep(ps[i].heatIntensity, TargetHeat(ps, i))

\* the position update of update()
Displace(p) == [p EXCEPT !.x = @ + p.vx, !.y = @ + p.vy]

\* update(allPenguins) of penguin i up to the position update
Move(ps, i, mx, my) ==
    Displace(applyBoundaryForce(applySeparation(ps,
        applyCohesion(ps, spiralMovement(applyCursorInfluence(ps[i], mx, my))))))

\* update(allPenguins) from the heat update on, penguin i having moved
HeatAndDamping(moved, i) ==
    [moved EXCEPT ![i].heatIntensity = updateHeat(moved, i),
                  ![i].vx = RDiv(moved[i].vx * damping, 100),
                  ![i].vy = RDiv(moved[i].vy * damping, 100)]

\* update(allPenguins) of penguin i
update(ps, i, mx, my) == HeatAndDamping([ps EXCEPT ![i] = Move(ps, i, mx, my)], i)

\* the update loop of draw() with the cursor moving on between two penguins
RECURSIVE UpdateAllCursorDrift(_, _, _, _)
UpdateAllCursorDrift(ps, i, mx, my) ==
    IF i > Len(ps) THEN ps
    ELSE UpdateAllCursorDrift(update(ps, i, mx, my), i + 1, mx + 50 * Unit, my)

\* the update loop of draw() over the penguins i..Len(ps)
RECURSIVE UpdateAll(_, _, _, _)
UpdateAll(ps, i, mx, my) ==
    IF i > Len(ps) THEN ps ELSE UpdateAll(update(ps, i, mx, my), i + 1, mx, my)

\* draws of setup() and of the constructor for one penguin: the variation
\* of the angle in (-0.01, 0.01), of the radius in (-1, 1), and
\* random(TWO_PI)
PenguinDraws ==
    { [angle |-> 999, radius |-> 99, phase |-> TWO_PI - 2 * spiralSpeed],
      [angle |-> -1000, radius |-> -99, phase |-> PI - 350] }

\* the number of penguins setup() creates for a penguinCount of n
Population(n) == Min(n, layers * Max(minPerLayer, n \div layers))

\* the k-th penguin (from 0) that setup() creates for a penguinCount of n
NewPenguin(n, k, d) ==
    LET count == Max(minPerLayer, n \div layers)
        layer == k \div count
        radius == RDiv(layer * huddleRadius * 9, (layers - 1) * 10)
    IN  Penguin(RDiv((k % count) * TWO_PI, count) + d.angle, radius + d.radius,
                k = 0, d.phase)

\* setup(): the creation loops, the trim and the neighbor loop.  Every
\* penguin of a crowd of up to NumPenguins has draws of its own; in a larger
\* crowd all penguins have the same draws
setup ==
    /\ sim = "penguins"
    /\ scene = "none"
    /\ \E ds \in IF Population(penguinCount) <= NumPenguins
                 THEN [1..Population(penguinCount) -> PenguinDraws]
                 ELSE {[k \in 1..Population(penguinCount) |-> d] : d \in PenguinDraws} :
          penguins' = RefreshAll([k \in 1..Population(penguinCount) |->
                                     NewPenguin(penguinCount, k - 1, ds[k])])
    /\ scene' = "running"
    /\ UNCHANGED <<sim, tab, frames, budget, fish, specialFish, speedMultiplier, positions, velocities,
                   mouse, deltaTime, mouseXPos, mouseYPos, penguinCount>>

\* mouseMoved(), mouseDragged()
mouseMoved ==
    /\ sim = "penguins"
    /\ scene = "running"
    /\ frames = 0 \/ budget > 0
    /\ \E ev \in MouseEvents :
          /\ mouseXPos' = ev.clientX * Unit
          /\ mouseYPos' = ev.clientY * Unit
    /\ budget' = IF frames = 0 THEN budget ELSE budget - 1
    /\ UNCHANGED <<sim, tab, frames, scene, fish, specialFish, speedMultiplier, positions, velocities,
                   mouse, deltaTime, penguins, penguinCount>>

\* the neighbor lists refreshed in every frame
RefreshDueAlways(frameCount) == TRUE

\* the test of draw() for the frames that refresh the neighbor lists
RefreshDue(frameCount) == frameCount % refreshPeriod = 0

\* p5 calls draw() for the next frame; frames is frameCount
NextFrame ==
    /\ sim = "penguins"
    /\ scene = "running"
    /\ frames < MaxFrames
    /\ IF budget = MaxFree THEN TRUE ELSE budget > 0
    /\ frames' = frames + 1

\* draw with a random push on the first penguin
drawWithNoise ==
    /\ NextFrame
    /\ budget' = IF budget = MaxFree THEN budget ELSE budget - 1
    /\ \E updated \in {UpdateAll(penguins, 1, mouseXPos, mouseYPos)} :
          \E noise \in {0, 1} :
             penguins' = [(IF RefreshDue(frames') THEN RefreshAll(updated) ELSE updated)
                             EXCEPT ![1].vx = @ + noise]
    /\ UNCHANGED <<sim, tab, scene, fish, specialFish, speedMultiplier, positions, velocities, mouse, deltaTime,
                   mouseXPos, mouseYPos, penguinCount>>

\* draw()
draw ==
    /\ NextFrame
    /\ budget' = IF budget = MaxFree THEN budget ELSE budget - 1
    /\ \E updated \in {UpdateAll(penguins, 1, mouseXPos, mouseYPos)} :
          penguins' = IF RefreshDue(frames') THEN RefreshAll(updated)
                      ELSE updated
    /\ UNCHANGED <<sim, tab, scene, fish, specialFish, speedMultiplier, positions, velocities, mouse, deltaTime,
                   mouseXPos, mouseYPos, penguinCount>>

-----------------------------------------------------------------------------
(* The loaded script and its handlers *)

Sims == {"fish", "main", "starling", "penguins"}

\* tab: the class of the container of fish.js holds 'active' (active), the
\* script has run (loaded), mutation records wait for the observer
\* (pending), animation loops were started (loops).  The other scripts do
\* not read the class.
Init ==
    /\ sim \in Sims
    /\ tab \in { [active |-> a, loaded |-> FALSE, pending |-> 0, loops |-> 0] :
                  a \in IF sim = "fish" THEN BOOLEAN ELSE {FALSE} }
    /\ frames = 0
    /\ budget = MaxFree
    /\ fish = << >>
    /\ specialFish = << >>
    /\ speedMultiplier = 100
    /\ scene = "none"
    /\ positions = << >>
    /\ velocities = << >>
    /\ mouse = [x |-> 0, y |-> 0]
    /\ deltaTime = 0
    /\ penguins = << >>
    /\ mouseXPos = 0
    /\ mouseYPos = 0
    /\ penguinCount \in IF sim = "penguins" THEN 1..NumPenguins ELSE {0}

Next ==
    \/ FishLoad
    \/ FishClassChange
    \/ FishObserve
    \/ FishMouseMove
    \/ FishAnimate
    \/ MainInit
    \/ MainAnimate
    \/ StarlingInit
    \/ StarlingMouseMove
    \/ StarlingAnimate
    \/ setup
    \/ mouseMoved
    \/ draw

Spec == Init /\ [][Next]_vars

-----------------------------------------------------------------------------
(* The scenario of a fish placed at peelHeight: fish.js with its fish put  *)
(* on the inner ring at the height peelHeight in ascend mode, rising at    *)
(* the nominal rate or sinking at the descent speed.                       *)

PlacedDraws ==
    { [c |-> Unit, vy |-> AscentRate(innerRing)],
      [c |-> -Unit, vy |-> -descentSpeed] }

PlacedFish(d) ==
    [pos |-> Vec(RDiv(innerRing * d.c, Unit), peelHeight, 0),
     vel |-> Vec(0, d.vy, RDiv(d.c * baseTangentialSpeed, Unit)),
     acc |-> Zero3,
     radius |-> innerRing,
     mode |-> "ascend",
     neighbors |-> << >>]

InitPlaced ==
    /\ sim = "fish"
    /\ tab = [active |-> TRUE, loaded |-> TRUE, pending |-> 0, loops |-> 1]
    /\ frames = 0
    /\ budget = MaxFree
    /\ fish \in { [i \in 1..NumFish |-> PlacedFish(ds[i])] : ds \in [1..NumFish -> PlacedDraws] }
    /\ specialFish = <<updateGeometry(fish, fish).a>>
    /\ speedMultiplier = 100
    /\ scene = "running"
    /\ positions = updateGeometry(fish, fish).positions
    /\ velocities = << >>
    /\ mouse = [x |-> 0, y |-> 0]
    /\ deltaTime = 0
    /\ penguins = << >>
    /\ mouseXPos = 0
    /\ mouseYPos = 0
    /\ penguinCount = 0

NextPlaced ==
    \/ FishMouseMove
    \/ FishAnimate

SpecPlaced == InitPlaced /\ [][NextPlaced]_vars

-----------------------------------------------------------------------------
(* penguins.js alone, p5 calling draw() for every frame: a frame that can  *)
(* be drawn is drawn.  Every step of NextHuddle that counts a frame is a   *)
(* step of draw, and draw can be taken exactly when NextFrame can.         *)

InitHuddle == Init /\ sim = "penguins"

NextHuddle ==
    \/ setup
    \/ mouseMoved
    \/ draw

SpecHuddle == InitHuddle /\ [][NextHuddle]_vars /\ WF_frames(NextFrame)

-----------------------------------------------------------------------------
(* findNeighbors of penguins.js as a function of the positions: crowds of  *)
(* penguins standing on a square lattice, where many distances are equal,  *)
(* in three index orders, and the loop that calls findNeighbors for each.  *)

\* a new penguin standing x to the right of and y below the center
PenguinAt(x, y) ==
    [Penguin(0, 0, FALSE, 0) EXCEPT !.x = centerX + x, !.y = centerY + y]

\* the crowds: n penguins on a lattice of spacing s, 8 px, 14 px (four
\* cells are d0 * 8), 20 px or 60 px, in the index order o
LatticeDraws ==
    [n : {1, 2, 3, CrowdSide + 1, CrowdSide * CrowdSide - 4, CrowdSide * CrowdSide - 3,
          CrowdSide * CrowdSide},
     s : {800, 2 * d0, 2000, 6000},
     o : {"rows", "columns", "reversed"}]

\* the crowd of the draw d: penguin k stands on the lattice cell k - 1, or
\* on the cell n - k in reversed order, the cells counted along the rows or
\* along the columns
Lattice(d) ==
    [k \in 1..d.n |->
        LET cell == IF d.o = "reversed" THEN d.n - k ELSE k - 1
        IN  IF d.o = "columns"
            THEN PenguinAt(d.s * (cell \div CrowdSide), d.s * (cell % CrowdSide))
            ELSE PenguinAt(d.s * (cell % CrowdSide), d.s * (cell \div CrowdSide))]

InitNeighbors ==
    /\ sim = "penguins"
    /\ tab = [active |-> FALSE, loaded |-> FALSE, pending |-> 0, loops |-> 0]
    /\ frames = 0
    /\ budget = MaxFree
    /\ fish = << >>
    /\ specialFish = << >>
    /\ speedMultiplier = 100
    /\ scene = "placed"
    /\ positions = << >>
    /\ velocities = << >>
    /\ mouse = [x |-> 0, y |-> 0]
    /\ deltaTime = 0
    /\ penguins \in { Lattice(d) : d \in LatticeDraws }
    /\ mouseXPos = 0
    /\ mouseYPos = 0
    /\ penguinCount = Len(penguins)

\* the loop over the penguins that calls findNeighbors for each
FindAllNeighbors ==
    /\ sim = "penguins"
    /\ scene = "placed"
    /\ penguins' = RefreshAll(penguins)
    /\ scene' = "running"
    /\ UNCHANGED <<sim, tab, frames, budget, fish, specialFish, speedMultiplier, positions, velocities,
                   mouse, deltaTime, mouseXPos, mouseYPos, penguinCount>>

SpecNeighbors == InitNeighbors /\ [][FindAllNeighbors]_vars

-----------------------------------------------------------------------------
(* penguins.js with a small crowd on a ring around the center, so that the *)
(* penguins come into and leave each other's search radius while it runs.  *)

\* the crowds: n penguins at equal angles on a ring of the radius r, 30 px
\* or 60 px, all with the spiral phase of the same draw
CrowdDraws ==
    [n : 2..NumPenguins + 1, r : {3000, 6000}, phase : {d.phase : d \in PenguinDraws}]

\* the crowd of the draw d
Crowd(d) ==
    [k \in 1..d.n |-> Penguin(RDiv((k - 1) * TWO_PI, d.n), d.r, k = 1, d.phase)]

InitCrowd ==
    /\ sim = "penguins"
    /\ tab = [active |-> FALSE, loaded |-> FALSE, pending |-> 0, loops |-> 0]
    /\ frames = 0
    /\ budget = MaxFree
    /\ fish = << >>
    /\ specialFish = << >>
    /\ speedMultiplier = 100
    /\ scene = "placed"
    /\ positions = << >>
    /\ velocities = << >>
    /\ mouse = [x |-> 0, y |-> 0]
    /\ deltaTime = 0
    /\ penguins \in { Crowd(d) : d \in CrowdDraws }
    /\ mouseXPos = 0
    /\ mouseYPos = 0
    /\ penguinCount = Len(penguins)

NextCrowd ==
    \/ FindAllNeighbors
    \/ mouseMoved
    \/ draw

SpecCrowd == InitCrowd /\ [][NextCrowd]_vars

-----------------------------------------------------------------------------
(* The speed clamp of updateFish on its own: one fish on the inner ring    *)
(* whose velocity after vel.add(acc) is drawn: the zero vector, vectors of *)
(* the length 0.01 along an axis, and vectors with components of 0, 1,     *)
(* minSpeed and beyond maxSpeed; then the clamp is applied to it.          *)

InitClamp ==
    /\ sim = "fish"
    /\ tab = [active |-> TRUE, loaded |-> TRUE, pending |-> 0, loops |-> 1]
    /\ frames = 0
    /\ budget = MaxFree
    /\ fish \in { << [PlacedFish([c |-> Unit, vy |-> 0]) EXCEPT !.vel = v] >> :
                     v \in { Vec(x, y, z) : x, y, z \in {-fish_maxSpeed - 1, 0, Unit,
                                                          fish_minSpeed} }
                           \cup { Vec(1, 0, 0), Vec(0, -1, 0), Vec(0, 0, 1) } }
    /\ specialFish = <<updateGeometry(fish, fish).a>>
    /\ speedMultiplier = 100
    /\ scene = "summed"
    /\ positions = updateGeometry(fish, fish).positions
    /\ velocities = << >>
    /\ mouse = [x |-> 0, y |-> 0]
    /\ deltaTime = 0
    /\ penguins = << >>
    /\ mouseXPos = 0
    /\ mouseYPos = 0
    /\ penguinCount = 0

\* the clamp of the speed of every fish, as the force loop applies it
\* after vel.add(acc)
ClampAll ==
    /\ sim = "fish"
    /\ scene = "summed"
    /\ fish' = [i \in DOMAIN fish |-> [fish[i] EXCEPT !.vel = ClampSpeed(@)]]
    /\ scene' = "clamped"
    /\ UNCHANGED <<sim, tab, frames, budget, specialFish, speedMultiplier, positions,
                   velocities, mouse, deltaTime, huddleVars>>

SpecClamp == InitClamp /\ [][ClampAll]_vars

-----------------------------------------------------------------------------
(* setup() of penguins.js on its own, for the values of penguinCount up to *)
(* MaxCount: above layers * minPerLayer the layers of                      *)
(* floor(penguinCount / layers) penguins no longer add up to penguinCount. *)

InitSetup ==
    /\ sim = "penguins"
    /\ tab = [active |-> FALSE, loaded |-> FALSE, pending |-> 0, loops |-> 0]
    /\ frames = 0
    /\ budget = MaxFree
    /\ fish = << >>
    /\ specialFish = << >>
    /\ speedMultiplier = 100
    /\ scene = "none"
    /\ positions = << >>
    /\ velocities = << >>
    /\ mouse = [x |-> 0, y |-> 0]
    /\ deltaTime = 0
    /\ penguins = << >>
    /\ mouseXPos = 0
    /\ mouseYPos = 0
    /\ penguinCount \in 1..MaxCount

SpecSetup == InitSetup /\ [][setup]_vars

-----------------------------------------------------------------------------
(* penguins.js with two penguins 60 px apart, inside each other's          *)
(* heatRadius, the first with a heat drawn between minHeat and maxHeat.    *)
(* The crowd of the source, with some hundred penguins inside heatRadius,  *)
(* lifts the target heat of its outer penguins above their heat; a crowd   *)
(* of two does so for a penguin that is cold enough.                       *)

InitHeat ==
    /\ sim = "penguins"
    /\ tab = [active |-> FALSE, loaded |-> FALSE, pending |-> 0, loops |-> 0]
    /\ frames = 0
    /\ budget = MaxFree
    /\ fish = << >>
    /\ specialFish = << >>
    /\ speedMultiplier = 100
    /\ scene = "placed"
    /\ positions = << >>
    /\ velocities = << >>
    /\ mouse = [x |-> 0, y |-> 0]
    /\ deltaTime = 0
    /\ penguins \in { [Crowd([n |-> 2, r |-> 3000, phase |-> d.phase])
                          EXCEPT ![1].heatIntensity = h] :
                       d \in PenguinDraws, h \in {minHeat, HeatUnit \div 100, maxHeat} }
    /\ mouseXPos = 0
    /\ mouseYPos = 0
    /\ penguinCount = Len(penguins)

SpecHeat == InitHeat /\ [][NextCrowd]_vars

-----------------------------------------------------------------------------
(* The scenario of two birds at rest 5 units apart, in main.js and in      *)
(* starling.js.                                                            *)

\* the pairs: the first bird at a, the second 5 units from it along an axis
PairDraws ==
    { <<a, VAdd(a, b)>> :
         a \in {Zero3, Vec(10 * Unit, 0, 0), Vec(-20 * Unit, 10 * Unit, 5 * Unit)},
         b \in {Vec(5 * Unit, 0, 0), Vec(-5 * Unit, 0, 0), Vec(0, 5 * Unit, 0),
                Vec(0, 0, 5 * Unit)} }

InitPair ==
    /\ sim \in {"main", "starling"}
    /\ tab = [active |-> FALSE, loaded |-> FALSE, pending |-> 0, loops |-> 0]
    /\ frames = 0
    /\ budget = MaxFree
    /\ fish = << >>
    /\ specialFish = << >>
    /\ speedMultiplier = 100
    /\ scene = "running"
    /\ positions \in PairDraws
    /\ velocities = <<Zero3, Zero3>>
    /\ mouse = [x |-> 0, y |-> 0]
    /\ deltaTime = 0
    /\ penguins = << >>
    /\ mouseXPos = 0
    /\ mouseYPos = 0
    /\ penguinCount = 0

NextPair ==
    \/ MainAnimate
    \/ StarlingMouseMove
    \/ StarlingAnimate

SpecPair == InitPair /\ [][NextPair]_vars

-----------------------------------------------------------------------------
(* Claims C1..C10 *)

\* C1 as stated: at the end of every tick every fish has a speed in
\* [minSpeed, maxSpeed].
C1_SpeedAlwaysInRange ==
    sim = "fish" /\ frames > 0 =>
        \A i \in DOMAIN fish :
            /\ Length(fish[i].vel) >= fish_minSpeed - Slack
            /\ Length(fish[i].vel) <= fish_maxSpeed + Slack

\* C1 amended: at the end of every tick, every fish that did not switch
\* descend -> ascend in that tick has a speed in [minSpeed, maxSpeed]; a fish
\* that did switch has the nominal ascent rate as its vertical velocity and a
\* horizontal speed of at most maxSpeed.
C1_SpeedInRange ==
    [][sim = "fish" /\ frames' = frames + 1 =>
         \A i \in DOMAIN fish' :
            IF fish[i].mode = "descend" /\ fish'[i].mode = "ascend"
            THEN /\ fish'[i].vel.y = AscentRate(innerRing)
                 /\ Length(Vec(fish'[i].vel.x, 0, fish'[i].vel.z)) <= fish_maxSpeed + Slack
            ELSE /\ Length(fish'[i].vel) >= fish_minSpeed - Slack
                 /\ Length(fish'[i].vel) <= fish_maxSpeed + Slack]_vars

\* a descending fish that the clamp holds at minSpeed
C1_Witness ==
    /\ sim = "fish"
    /\ frames > 1
    /\ \E i \in DOMAIN fish :
          /\ fish[i].mode = "descend"
          /\ fish[i].pos.y < peelHeight
          /\ Abs(Length(fish[i].vel) - fish_minSpeed) <= Slack

\* C2 as stated: the velocity flock() writes back has a magnitude of at most
\* the limit (maxSpeed in main.js; speedLimit, and 5 more inside the ray
\* radius, in starling.js).  A bird of main.js that is NaN is left aside.
C2_WrittenSpeedWithinLimit ==
    [][frames' = frames + 1 =>
         /\ sim = "main" =>
               \A i \in DOMAIN velocities' :
                  \/ IsNaN(velocities'[i])
                  \/ Length(velocities'[i]) <= main_maxSpeed + Slack
         /\ sim = "starling" =>
               \A i \in DOMAIN velocities' :
                  Length(velocities'[i]) <= Limit(positions[i], mouse) + Slack]_vars

\* C2 amended: the velocity flock() writes back, less the boundary nudge it
\* got after the clamp (fixed by the written position), has a magnitude of
\* at most the limit; in main.js a bird that met another bird at distance 0
\* is written back as NaN.
C2_ClampedSpeedWithinLimit ==
    [][frames' = frames + 1 =>
         /\ sim = "main" =>
               \A i \in DOMAIN velocities' :
                  \/ IsNaN(velocities'[i])
                  \/ Length(VSub(velocities'[i], MainNudges(positions'[i])))
                        <= main_maxSpeed + Slack
         /\ sim = "starling" =>
               \A i \in DOMAIN velocities' :
                  Length(VSub(velocities'[i], SoftBoundaries(positions'[i])))
                     <= Limit(positions[i], mouse) + Slack]_vars

\* a written velocity that the nudge left above the limit
C2_Witness ==
    /\ sim = "starling"
    /\ frames > 0
    /\ \E i \in DOMAIN velocities :
          /\ Length(velocities[i]) > speedLimit + 5 * Unit + Slack
          /\ SoftBoundaries(positions[i]) /= Zero3

\* C3: every penguin's heatIntensity is in [minHeat, maxHeat], from
\* construction onward and after every updateHeat.
C3_HeatInRange ==
    sim = "penguins" =>
        \A i \in DOMAIN penguins :
            minHeat <= penguins[i].heatIntensity /\ penguins[i].heatIntensity <= maxHeat

\* two penguins whose heat has been updated below every initial heat
C3_Witness ==
    /\ sim = "penguins"
    /\ frames > 0
    /\ Len(penguins) > 1
    /\ \E i \in DOMAIN penguins : penguins[i].heatIntensity < HeatUnit \div 2

\* C4: a fish's mode is ascend or descend; across a tick it goes from ascend
\* to descend exactly when its height after the update is at or above
\* peelHeight, from descend to ascend exactly when that height is at or below
\* reentryHeight, and keeps its mode otherwise.
C4_ModeMachine ==
    [][\A i \in DOMAIN fish' :
         /\ fish'[i].mode \in {"ascend", "descend"}
         /\ i \in DOMAIN fish =>
               fish'[i].mode =
                  IF fish[i].mode = "ascend"
                  THEN (IF fish'[i].pos.y >= peelHeight THEN "descend" ELSE "ascend")
                  ELSE (IF fish'[i].pos.y <= reentryHeight THEN "ascend" ELSE "descend")]_vars

\* a fish that has peeled and is still at or above peelHeight
C4_Witness ==
    /\ sim = "fish"
    /\ \E i \in DOMAIN fish : fish[i].mode = "descend" /\ fish[i].pos.y >= peelHeight

\* C5 as stated: a fish in ascend mode at exactly peelHeight at the start of
\* a tick is in descend mode at the end of it, whatever its velocity and dt.
C5_PlacedFishPeels ==
    [][frames' = frames + 1 =>
         \A i \in DOMAIN fish :
            fish[i].mode = "ascend" /\ fish[i].pos.y = peelHeight
               => fish'[i].mode = "descend"]_vars

\* C5 amended: a fish in ascend mode at exactly peelHeight at the start of a
\* tick is in descend mode at the end of it exactly when the tick did not
\* move it down, and stays in ascend mode when it did; a fish in descend mode
\* has outerRing as the target radius of vortexConveyorForce.
C5_PlacedFishPeelsUnlessSinking ==
    [][frames' = frames + 1 =>
         \A i \in DOMAIN fish :
            fish[i].mode = "ascend" /\ fish[i].pos.y = peelHeight
               => /\ fish'[i].mode = "descend" <=> fish'[i].pos.y >= fish[i].pos.y
                  /\ fish'[i].mode = "descend" => TargetRadius(fish'[i]) = outerRing]_vars

\* after the first tick one placed fish has peeled and another has sunk and
\* is still in ascend mode
C5_Witness ==
    /\ frames = 1
    /\ \E i, j \in DOMAIN fish :
          /\ fish[i].mode = "descend" /\ fish[i].pos.y >= peelHeight
          /\ fish[j].mode = "ascend" /\ fish[j].pos.y < peelHeight
          /\ fish[j].pos.y > 0

\* C6: in a tick in which a fish switches descend -> ascend its vertical
\* velocity ends as the nominal ascent rate; in every other tick its velocity
\* ends as the speed clamp left it.
C6_SnapOnReentry ==
    [][sim = "fish" /\ frames' = frames + 1 =>
         \A i \in DOMAIN fish' :
            IF fish[i].mode = "descend" /\ fish'[i].mode = "ascend"
            THEN fish'[i].vel.y = AscentRate(innerRing)
            ELSE fish'[i].vel =
                    Integrate([j \in DOMAIN fish |->
                                  IF j < i THEN fish'[j] ELSE NeighborPass(fish)[j]],
                              i, 0).vel]_vars

\* a fish that has come down the outer ring, has just re-entered and carries
\* the snapped vertical velocity
C6_Witness ==
    /\ sim = "fish"
    /\ frames > 200
    /\ \E i \in DOMAIN fish :
          /\ fish[i].mode = "ascend"
          /\ fish[i].vel.y = AscentRate(innerRing)
          /\ fish[i].pos.y <= reentryHeight

\* C7 as stated: every penguin's spiralPhase is in [0, 2 pi).
C7_PhaseBelowTwoPi ==
    sim = "penguins" =>
        \A i \in DOMAIN penguins :
            0 <= penguins[i].spiralPhase /\ penguins[i].spiralPhase < TWO_PI

\* C7 amended: every penguin's spiralPhase is in [0, 2 pi], 2 pi included;
\* a frame resets it to 0 only from within one increment of 2 pi, and
\* otherwise increases it.
C7_PhaseUpToTwoPi ==
    [][\A i \in DOMAIN penguins' :
         /\ 0 <= penguins'[i].spiralPhase
         /\ penguins'[i].spiralPhase <= TWO_PI
         /\ frames' = frames + 1 =>
               \/ /\ penguins'[i].spiralPhase = 0
                  /\ penguins[i].spiralPhase > TWO_PI - spiralSpeed
               \/ penguins'[i].spiralPhase > penguins[i].spiralPhase]_vars

\* a penguin whose phase is exactly 2 pi after a frame
C7_Witness ==
    /\ sim = "penguins"
    /\ frames > 0
    /\ \E i \in DOMAIN penguins : penguins[i].spiralPhase = TWO_PI

\* C8: in a frame a penguin's phase either increases, and then it does not go
\* from the outward half (>= pi) to the inward half (< pi), or it is reset to
\* 0 from the outward half; so between two resets the interpretation flips
\* once, from inward to outward.
C8_OneFlipPerCycle ==
    [][sim = "penguins" /\ frames' = frames + 1 =>
         \A i \in DOMAIN penguins' :
            \/ /\ penguins'[i].spiralPhase > penguins[i].spiralPhase
               /\ penguins[i].spiralPhase >= PI => penguins'[i].spiralPhase >= PI
            \/ /\ penguins'[i].spiralPhase = 0
               /\ penguins[i].spiralPhase >= PI]_vars

\* a penguin that entered the outward half in the last frame
C8_Witness ==
    /\ sim = "penguins"
    /\ frames > 0
    /\ \E i \in DOMAIN penguins :
          /\ penguins[i].spiralPhase >= PI
          /\ penguins[i].spiralPhase < PI + spiralSpeed \div 2

\* C9: an agent without neighbors gets no separation, alignment or cohesion
\* contribution: a fish with an empty list accelerates by the capped vortex
\* force alone; a penguin with an empty list ends the frame with the damped
\* velocity of the spiral and boundary forces alone; a bird of main.js with
\* no bird inside perceptionRadius moves by its own clamped velocity.
C9_NoNeighborsNoContribution ==
    [][frames' = frames + 1 =>
         /\ sim = "fish" =>
               \A i \in DOMAIN fish :
                  NeighborPass(fish)[i].neighbors = << >>
                     => fish'[i].acc = LimitAccel(vortexConveyorForce(fish[i]))
         /\ sim = "penguins" =>
               \A i \in DOMAIN penguins :
                  penguins[i].neighbors = << >>
                     => LET p == applyBoundaryForce(spiralMovement(
                                    applyCursorInfluence(penguins[i], mouseXPos, mouseYPos)))
                        IN  /\ penguins'[i].vx = RDiv(p.vx * damping, 100)
                            /\ penguins'[i].vy = RDiv(p.vy * damping, 100)
         /\ sim = "main" =>
               \A i \in DOMAIN positions :
                  /\ ~IsNaN(positions[i])
                  /\ MainSums([j \in DOMAIN positions |->
                                  IF j < i THEN positions'[j] ELSE positions[j]],
                              [j \in DOMAIN velocities |->
                                  IF j < i THEN velocities'[j] ELSE velocities[j]],
                              i, 1).total = 0
                  => VSub(positions'[i], positions[i])
                        = ClampLength(velocities[i], main_maxSpeed)]_vars

\* a penguin without neighbors that has moved
C9_Witness ==
    /\ sim = "penguins"
    /\ frames > 0
    /\ \E i \in DOMAIN penguins :
          penguins[i].neighbors = << >> /\ penguins[i].vx /= 0

\* C10: a tick with dt = 0 leaves every position as it was (fish.js and
\* starling.js).
C10_ZeroDtKeepsPositions ==
    [][frames' = frames + 1 /\ deltaTime' = 0 =>
         /\ sim = "fish" => \A i \in DOMAIN fish : fish'[i].pos = fish[i].pos
         /\ sim = "starling" => positions' = positions]_vars

\* a tick with dt = 0 has run in fish.js
C10_Witness ==
    /\ sim = "fish"
    /\ frames > 1
    /\ deltaTime = 0
-----------------------------------------------------------------------------
(* Claims C11..C20 *)

\* C11: the dt handed to the per-frame update is never negative and never
\* above the cap of 60 ms, in fish.js and in starling.js, whatever the clock
\* reads.
C11_DtWithinCap ==
    sim \in {"fish", "starling"} => deltaTime >= 0 /\ deltaTime <= DtCap

\* C12: once a script is initialized, no step (tick, mouse event, change of
\* the container's class, observer callback) changes the number of fish, of
\* penguins, or the size of the position and velocity buffers.
C12_AgentCountFixed ==
    [][scene # "none" =>
         /\ Len(fish') = Len(fish)
         /\ Len(positions') = Len(positions)
         /\ Len(velocities') = Len(velocities)
         /\ Len(penguins') = Len(penguins)]_vars

\* fish.js after init(), frames, and a class change that took 'active' away
\* and was handed to the observer
C12_Witness ==
    /\ sim = "fish"
    /\ frames > 1
    /\ tab.loops = 1
    /\ ~tab.active
    /\ tab.pending = 0
    /\ budget < MaxFree
    /\ Len(fish) = NumFish

\* C13: no reachable state of the buffers of main.js and starling.js holds a
\* NaN position or velocity.
C13_AllFinite ==
    sim \in {"main", "starling"} =>
        \A i \in DOMAIN positions : ~IsNaN(positions[i]) /\ ~IsNaN(velocities[i])

\* C18: init() of fish.js runs at most once: at most one animation loop is
\* ever started, the fish array is empty before it and holds numFish fish
\* from then on, and no frame runs without it.
C18_SingleLoop ==
    sim = "fish" =>
        /\ tab.loops <= 1
        /\ tab.loops = 0 => fish = << >> /\ frames = 0 /\ scene = "none"
        /\ tab.loops = 1 => Len(fish) = NumFish /\ scene # "none"

\* the container is active, the loop runs, and a class change after init()
\* (the one free step, spent neither on a mouse event nor on a short frame)
\* was handed to the observer
C18_Witness ==
    /\ sim = "fish"
    /\ scene = "running"
    /\ frames > 1
    /\ tab.loops = 1
    /\ tab.active
    /\ tab.pending = 0
    /\ budget < MaxFree
    /\ speedMultiplier = 100
    /\ deltaTime = DtCap

\* C16: within one tick the agents are updated once each, in ascending index
\* order and in place: the entry a tick writes for agent i is the update of
\* agent i computed from the entries already written in this tick for the
\* agents j < i and from the entries of the previous tick for the agents
\* j >= i (fish.js after its neighbour pass, main.js, starling.js).
C16_IndexOrderInPlace ==
    [][frames' = frames + 1 =>
         /\ sim = "main" =>
               \A i \in DOMAIN positions :
                  [pos |-> positions'[i], vel |-> velocities'[i]]
                     = MainBird([j \in DOMAIN positions |->
                                    IF j < i THEN positions'[j] ELSE positions[j]],
                                [j \in DOMAIN velocities |->
                                    IF j < i THEN velocities'[j] ELSE velocities[j]],
                                i)
         /\ sim = "starling" =>
               \A i \in DOMAIN positions :
                  [pos |-> positions'[i], vel |-> velocities'[i]]
                     = StarlingBird([j \in DOMAIN positions |->
                                        IF j < i THEN positions'[j] ELSE positions[j]],
                                    [j \in DOMAIN velocities |->
                                        IF j < i THEN velocities'[j] ELSE velocities[j]],
                                    mouse, i, deltaTime')
         /\ sim = "fish" =>
               \E listed \in {NeighborPass(fish)} :
                  \A i \in DOMAIN fish :
                     fish'[i] = UpdateOne([j \in DOMAIN fish |->
                                              IF j < i THEN fish'[j] ELSE listed[j]],
                                          i, deltaTime' * speedMultiplier)[i]]_vars

\* main.js after a tick in which the second bird had the first, already
\* moved, inside its perception radius
C16_Witness ==
    /\ sim = "main"
    /\ frames > 0
    /\ Len(positions) >= 2
    /\ ~IsNaN(positions[1]) /\ ~IsNaN(positions[2])
    /\ positions[1] # positions[2]
    /\ Length(VSub(positions[1], positions[2])) < perceptionRadius

\* C17: all agents updated in one tick use the cursor input the tick began
\* with: every penguin's cursorInfluenceStrength comes from mouseXPos and
\* mouseYPos, every fish moves by its velocity times the one scaledDt of
\* deltaTime and speedMultiplier, every bird of starling.js gets its velocity
\* from the one mouse ray.
C17_OneCursorPerTick ==
    [][frames' = frames + 1 =>
         /\ sim = "penguins" =>
               \A i \in DOMAIN penguins :
                  penguins'[i].cursorInfluenceStrength
                     = applyCursorInfluence(penguins[i], mouseXPos, mouseYPos)
                          .cursorInfluenceStrength
         /\ sim = "fish" =>
               \A i \in DOMAIN fish :
                  /\ fish'[i].pos.x = Advance(fish[i].pos, fish'[i].vel,
                                              deltaTime' * speedMultiplier).x
                  /\ fish'[i].pos.z = Advance(fish[i].pos, fish'[i].vel,
                                              deltaTime' * speedMultiplier).z
         /\ sim = "starling" =>
               \A i \in DOMAIN positions :
                  VSub(velocities'[i], SoftBoundaries(positions'[i]))
                     = StarlingVelocity([j \in DOMAIN positions |->
                                            IF j < i THEN positions'[j] ELSE positions[j]],
                                        [j \in DOMAIN velocities |->
                                            IF j < i THEN velocities'[j]
                                            ELSE velocities[j]],
                                        mouse, i, deltaTime')]_vars

\* a frame of the huddle after a mouse event put the cursor within reach of
\* two penguins
C17_Witness ==
    /\ sim = "penguins"
    /\ frames > 0
    /\ Len(penguins) >= 2
    /\ mouseXPos # 0
    /\ \A i \in DOMAIN penguins : penguins[i].cursorInfluenceStrength > 0

\* the distance from minHeat a cooled penguin is within
C14_HeatEps == HeatUnit \div 100

\* no other penguin within heatRadius of penguin i when updateHeat runs for
\* it in the step: the penguins up to i have moved, the others have not
C14_IsolatedInTick(i) ==
    HeatSums([j \in DOMAIN penguins |-> IF j <= i THEN penguins'[j] ELSE penguins[j]],
             i, 1).n = 0

\* no other penguin within heatRadius of penguin i between two frames
C14_Alone(i) == i \in DOMAIN penguins => HeatSums(penguins, i, 1).n = 0

\* C14: a penguin with no other penguin within heatRadius when its heat is
\* updated gets the heat lerp(heat, 0, heatLossRate), which is not above the
\* heat it had; and a penguin that is alone in every frame of a run of
\* MaxFrames frames ends within C14_HeatEps of minHeat and stays there.
C14_IsolatedCoolsDown ==
    /\ [][frames' = frames + 1 =>
             \A i \in DOMAIN penguins :
                C14_IsolatedInTick(i) =>
                   /\ penguins'[i].heatIntensity <= penguins[i].heatIntensity
                   /\ penguins'[i].heatIntensity >= minHeat
                   /\ penguins'[i].heatIntensity
                         = HeatStep(penguins[i].heatIntensity, 0)]_vars
    /\ \A i \in 1..NumPenguins :
          ([]C14_Alone(i) /\ <>(frames = MaxFrames))
             => <>[](i \in DOMAIN penguins
                        => penguins[i].heatIntensity <= minHeat + C14_HeatEps)

\* a lone penguin that has cooled from its initial heat to within C14_HeatEps of
\* minHeat
C14_Witness ==
    /\ sim = "penguins"
    /\ Len(penguins) = 1
    /\ frames > 0
    /\ C14_Alone(1)
    /\ penguins[1].heatIntensity <= minHeat + C14_HeatEps
    /\ penguins[1].heatIntensity < InitialHeat(0) - HeatUnit \div 2

\* the distance between the penguins i and j
C19_Dist(i, j) == dist(penguins[i].x, penguins[i].y, penguins[j].x, penguins[j].y)

\* C19: after findNeighbors the list of penguin i does not hold i, has at
\* most neighborCap entries, each of another penguin closer than d0 * 8, no
\* penguin twice; it is in ascending order of distance with equal distances
\* in ascending index order; and a penguin inside d0 * 8 that is left out is
\* not closer than any listed one, the list then being full.
C19_NeighborList ==
    sim = "penguins" /\ scene = "running" =>
       \A i \in DOMAIN penguins :
          LET ns == penguins[i].neighbors
          IN  /\ Len(ns) <= neighborCap
              /\ \A a \in DOMAIN ns :
                    /\ ns[a] \in DOMAIN penguins
                    /\ ns[a] # i
                    /\ C19_Dist(i, ns[a]) < searchRadius
              /\ \A a, b \in DOMAIN ns :
                    a < b =>
                       \/ C19_Dist(i, ns[a]) < C19_Dist(i, ns[b])
                       \/ C19_Dist(i, ns[a]) = C19_Dist(i, ns[b]) /\ ns[a] < ns[b]
              /\ \A j \in DOMAIN penguins :
                    (j # i /\ C19_Dist(i, j) < searchRadius
                     /\ \A a \in DOMAIN ns : ns[a] # j)
                       => /\ Len(ns) = neighborCap
                          /\ C19_Dist(i, j) >= C19_Dist(i, ns[neighborCap])

\* a searched crowd in reversed index order with a penguin whose list is
\* full, ends in two penguins equally far away and leaves out a third at
\* that distance
C19_Witness ==
    /\ sim = "penguins"
    /\ scene = "running"
    /\ Len(penguins) > neighborCap + 1
    /\ penguins[1].x > penguins[2].x
    /\ \E i \in DOMAIN penguins :
          /\ Len(penguins[i].neighbors) = neighborCap
          /\ C19_Dist(i, penguins[i].neighbors[neighborCap - 1])
                = C19_Dist(i, penguins[i].neighbors[neighborCap])
          /\ \E j \in DOMAIN penguins :
                /\ j # i
                /\ \A a \in DOMAIN penguins[i].neighbors : penguins[i].neighbors[a] # j
                /\ C19_Dist(i, j) = C19_Dist(i, penguins[i].neighbors[neighborCap])

\* C20: the neighbor lists are computed by the neighbor loop of setup; a
\* mouse event and a frame whose frameCount is not a multiple of
\* refreshPeriod change no list; a frame whose frameCount is a multiple of
\* refreshPeriod leaves every penguin with the list findNeighbors gives for
\* the positions after the frame's update pass; and every list, fresh, stale
\* or empty, names penguins of the crowd only, so that the force model can
\* read them.
C20_RefreshCadence ==
    [][sim = "penguins" =>
         /\ scene = "placed" /\ scene' = "running" =>
               \A i \in DOMAIN penguins :
                  penguins'[i].neighbors = findNeighbors(penguins', i)
         /\ scene = "running" /\ frames' = frames =>
               \A i \in DOMAIN penguins :
                  penguins'[i].neighbors = penguins[i].neighbors
         /\ frames' = frames + 1 /\ frames' % refreshPeriod # 0 =>
               \A i \in DOMAIN penguins :
                  penguins'[i].neighbors = penguins[i].neighbors
         /\ frames' = frames + 1 /\ frames' % refreshPeriod = 0 =>
               \A i \in DOMAIN penguins :
                  penguins'[i].neighbors = findNeighbors(penguins', i)
         /\ \A i \in DOMAIN penguins' :
               \A a \in DOMAIN penguins'[i].neighbors :
                  penguins'[i].neighbors[a] \in DOMAIN penguins' \ {i}]_vars

\* a frame between two refreshes, after the first refresh in draw(), in
\* which a penguin still has the empty list of the last refresh although
\* another penguin has come inside its search radius
C20_Witness ==
    /\ sim = "penguins"
    /\ scene = "running"
    /\ frames > refreshPeriod
    /\ frames % refreshPeriod # 0
    /\ \E i \in DOMAIN penguins :
          /\ penguins[i].neighbors = << >>
          /\ findNeighbors(penguins, i) # << >>

\* the component of the velocity v along the direction from q to p, times
\* the distance of p and q
C15_Away(v, p, q) == v.x * (p.x - q.x) + v.y * (p.y - q.y) + v.z * (p.z - q.z)

\* C15: after the first tick of two birds that are at rest 5 units apart,
\* the velocity of each bird has a strictly positive component along the
\* direction away from the place of the other bird (main.js, starling.js).
C15_PairSeparates ==
    [][(/\ sim \in {"main", "starling"}
        /\ frames = 0 /\ frames' = 1
        /\ Len(positions) = 2
        /\ velocities = <<Zero3, Zero3>>
        /\ Length(VSub(positions[1], positions[2])) = 5 * Unit)
          => /\ C15_Away(velocities'[1], positions[1], positions[2]) > 0
             /\ C15_Away(velocities'[2], positions[2], positions[1]) > 0]_vars

-----------------------------------------------------------------------------
(* Claims C21..C30 *)

C24_AccelCapped ==
    [][(sim = "fish" /\ frames' = frames + 1) =>
          \E reset \in {NeighborPass(fish)} :
             \A i \in DOMAIN fish :
                /\ reset[i].acc = Zero3
                /\ Length(fish'[i].acc) <= maxAccel + Slack]_vars

\* C24 witness: after a tick a fish holds an acceleration the cap has cut to
\* maxAccel
C24_Witness ==
    /\ sim = "fish"
    /\ frames > 1
    /\ \E i \in DOMAIN fish :
          /\ Length(fish[i].acc) >= maxAccel - Slack
          /\ Length(VAdd(vortexConveyorForce(fish[i]),
                         VScale(separationForce(fish, i), fish_separationWeight, 10)))
                > maxAccel + Slack

\* C26: every fish is between -halfH and halfH, at initialisation and at the
\* end of every tick.
C26_HeightContained ==
    sim = "fish" => \A i \in DOMAIN fish : -halfH <= fish[i].pos.y /\ fish[i].pos.y <= halfH

\* C26 witness: a tick with a step backwards has left a fish on the floor
\* that had risen from it
C26_Witness ==
    /\ sim = "fish"
    /\ frames > 1
    /\ deltaTime < 0
    /\ \E i \in DOMAIN fish : fish[i].pos.y = -halfH /\ fish[i].vel.y > 0

C28_NeighborPass ==
    (sim = "fish" /\ scene \in {"built", "running"}) =>
       \E listed \in {NeighborPass(fish)} :
          \A i \in DOMAIN fish :
             /\ \A k \in DOMAIN listed[i].neighbors :
                   /\ listed[i].neighbors[k] \in DOMAIN fish \ {i}
                   /\ \A m \in DOMAIN listed[i].neighbors :
                         listed[i].neighbors[m] = listed[i].neighbors[k] => m = k
             /\ \A j \in DOMAIN fish \ {i} :
                   /\ (\E k \in DOMAIN listed[i].neighbors : listed[i].neighbors[k] = j)
                         <=> DistSq(fish[i].pos, fish[j].pos) < cohesionRadiusSq
                   /\ (\E k \in DOMAIN listed[i].neighbors : listed[i].neighbors[k] = j)
                         <=> (\E k \in DOMAIN listed[j].neighbors : listed[j].neighbors[k] = i)

\* C28 witness: a tick begins with a list of the previous tick that holds a
\* fish now beyond the prefilter radius
C28_Witness ==
    /\ sim = "fish"
    /\ frames > 1
    /\ \E i \in DOMAIN fish :
          \E k \in DOMAIN fish[i].neighbors :
             DistSq(fish[i].pos, fish[fish[i].neighbors[k]].pos) >= cohesionRadiusSq

\* the target heat penguin i reads in the tick from penguins to penguins':
\* the penguins before it have their new state, the penguins after it their
\* old one, and it has moved itself
C25_Target(i) ==
    TargetHeat([j \in DOMAIN penguins |-> IF j <= i THEN penguins'[j] ELSE penguins[j]], i)

\* the heat of penguin i after the smoothing of the tick, before the clamp:
\* the previous heat moved towards the target by rate hundredths of the gap
C25_Smoothed(i, rate) ==
    penguins[i].heatIntensity
       + RDiv((C25_Target(i) - penguins[i].heatIntensity) * rate, 100)

\* C25: in every tick the heat of a penguin before the clamp lies between
\* its previous heat and the target heat; the rate is heatGainRate when the
\* target is strictly above the previous heat and heatLossRate otherwise, and
\* heatGainRate is the larger of the two.
C25_HeatSmoothing ==
    [][(sim = "penguins" /\ frames' = frames + 1) =>
          /\ heatGainRate > heatLossRate
          /\ \A i \in DOMAIN penguins :
                \E rate \in {IF C25_Target(i) > penguins[i].heatIntensity
                             THEN heatGainRate ELSE heatLossRate} :
                   /\ Min(penguins[i].heatIntensity, C25_Target(i)) <= C25_Smoothed(i, rate)
                   /\ C25_Smoothed(i, rate) <= Max(penguins[i].heatIntensity, C25_Target(i))
                   /\ penguins'[i].heatIntensity
                         = constrain(C25_Smoothed(i, rate), minHeat, maxHeat)]_vars

\* C25 witness: after some ticks one penguin is below its target heat by
\* enough for the gain rate to move it, and another is above its target heat
C25_Witness ==
    /\ sim = "penguins"
    /\ frames > 1
    /\ \E i, j \in DOMAIN penguins :
          /\ (TargetHeat(penguins, i) - penguins[i].heatIntensity) * heatGainRate >= 100
          /\ (penguins[j].heatIntensity - TargetHeat(penguins, j)) * heatLossRate >= 100

\* C23: the speed clamp of fish.js leaves every velocity it is given, the
\* zero vector and the shortest ones included, with a magnitude between
\* minSpeed and maxSpeed (up to rounding) and with its direction: no
\* component changes its sign, and a zero component stays zero.
C23_ClampGivesSpeedInRange ==
    [][(sim = "fish" /\ scene = "summed" /\ scene' = "clamped") =>
          \A i \in DOMAIN fish :
             /\ Length(fish'[i].vel) >= fish_minSpeed - Slack
             /\ Length(fish'[i].vel) <= fish_maxSpeed + Slack
             /\ fish[i].vel.x * fish'[i].vel.x >= 0
             /\ fish[i].vel.y * fish'[i].vel.y >= 0
             /\ fish[i].vel.z * fish'[i].vel.z >= 0
             /\ fish[i].vel.x = 0 => fish'[i].vel.x = 0
             /\ fish[i].vel.y = 0 => fish'[i].vel.y = 0
             /\ fish[i].vel.z = 0 => fish'[i].vel.z = 0]_vars

\* C30: after setup() the crowd has exactly penguinCount penguins, the first
\* of them is special and no other is.
C30_CrowdOfPenguinCount ==
    (sim = "penguins" /\ scene = "running") =>
       /\ Len(penguins) = penguinCount
       /\ \A k \in DOMAIN penguins : penguins[k].isSpecial <=> k = 1

\* the float m / 2^k is the number of a hundredths
C22_SameNumber(float, a) == float.m * 100 = a * 2^float.k

\* the float m / 2^k is the single-precision float next to a hundredths:
\* its mantissa has 24 bits at most and it is within half a unit of the
\* last place of a / 100
C22_Rounded(float, a) ==
    /\ Abs(float.m) <= 2^24
    /\ a # 0 => Abs(float.m) >= 2^23
    /\ Abs(float.m * 100 - a * 2^float.k) <= 50

\* the array entry holds the rounded coordinates of the position
C22_Holds(entry, pos) ==
    /\ C22_Rounded(entry.x, pos.x)
    /\ C22_Rounded(entry.y, pos.y)
    /\ C22_Rounded(entry.z, pos.z)

\* C22 as stated: whenever updateFish has returned, the position array has
\* an entry for every fish that holds the numbers pos.x, pos.y, pos.z of
\* that fish, and the array of the special fish holds those of
\* fish[specialFishIndex].
C22_BufferEqualsPositions ==
    (sim = "fish" /\ scene = "running") =>
       /\ Len(positions) = Len(fish)
       /\ Len(specialFish) = 1
       /\ \A i \in DOMAIN fish :
             /\ C22_SameNumber(positions[i].x, fish[i].pos.x)
             /\ C22_SameNumber(positions[i].y, fish[i].pos.y)
             /\ C22_SameNumber(positions[i].z, fish[i].pos.z)
       /\ C22_SameNumber(specialFish[1].x, fish[1].pos.x)
       /\ C22_SameNumber(specialFish[1].y, fish[1].pos.y)
       /\ C22_SameNumber(specialFish[1].z, fish[1].pos.z)

\* C22: whenever updateFish has returned (and after initFish), the position
\* array has an entry for every fish that holds pos.x, pos.y, pos.z of that
\* fish as the tick left them, rounded to single precision, and the array
\* of the special fish holds those of fish[specialFishIndex]; no entry is
\* stale.
C22_BufferHoldsRoundedPositions ==
    (sim = "fish" /\ scene \in {"built", "running"}) =>
       /\ Len(positions) = Len(fish)
       /\ Len(specialFish) = 1
       /\ \A i \in DOMAIN fish : C22_Holds(positions[i], fish[i].pos)
       /\ C22_Holds(specialFish[1], fish[1].pos)

\* C22 witness: a tick has moved the special fish and another fish apart,
\* and the clamp of the tick has put a fish back on the floor
C22_Witness ==
    /\ sim = "fish"
    /\ frames > 1
    /\ deltaTime < 0
    /\ Len(fish) > 1
    /\ fish[1].pos # fish[Len(fish)].pos
    /\ \E i \in DOMAIN fish :
          /\ fish[i].pos.y = -halfH
          /\ fish[i].vel.y > 0
          /\ positions[i].y = Fround(-halfH, 0)


\* the phase a frame leaves penguin i with is above the half turn
C29_Outward(i) == i \in DOMAIN penguins /\ penguins[i].spiralPhase >= PI

\* the phase a frame leaves penguin i with is below the half turn
C29_Inward(i) == i \in DOMAIN penguins /\ penguins[i].spiralPhase < PI

\* the least the phase of a penguin gains in the frames that are left of a run
C29_LeastGain == (MaxFrames - frames) * (spiralSpeed \div 2)

=============================================================================
